---------------------------- MODULE Spec2Model ----------------------------
(***************************************************************************)
(* Local entity store of the league admin site (src/unnamed/part_000):     *)
(* browser local storage holding one JSON text per collection key, the     *)
(* LS.get / LS.set wrappers, the seed step run at every script load, the   *)
(* fetch accessors and the postData / fetchData dispatchers.               *)
(*                                                                         *)
(* JavaScript values are modelled as tagged nodes, storage holds token     *)
(* sequences (the JSON text), and JSON.stringify / JSON.parse are the      *)
(* printer and the recursive-descent parser between the two.               *)
(***************************************************************************)
EXTENDS Integers, Sequences, FiniteSets, TLC

VARIABLES storage, last, assigned, auth, posted, logger, view

vars == <<storage, last, assigned, auth, posted, logger, view>>

(***************************************************************************)
(* Bounds of the model.                                                    *)
(***************************************************************************)
\* longest concessions / eventRequests list the model lets a post extend
MaxLen == 2
\* largest id a concession post may assign (posts and deletions alternate
\* without end otherwise)
MaxConcessionId == 3
\* how many localStorage.setItem calls of one seed run may fail (quota)
MaxFail == 1
\* how many collection keys hold arbitrary text when a page is opened
MaxDirty == 1
\* longest inventory list drawn for the summary and category accessors
MaxItems == 3

(***************************************************************************)
(* JavaScript values: a node [t, n, s, c].  t is the type tag, n a number  *)
(* (or 0/1 for a boolean), s a string (or a property name), c the children *)
(* (array elements, or the "prop" nodes of an object in own-key order).    *)
(***************************************************************************)
Node(t, n, s, c) == [t |-> t, n |-> n, s |-> s, c |-> c]

Undef    == Node("undefined", 0, "", <<>>)
Null     == Node("null", 0, "", <<>>)
NaN      == Node("nan", 0, "", <<>>)
True     == Node("bool", 1, "", <<>>)
False    == Node("bool", 0, "", <<>>)
Num(n)   == Node("num", n, "", <<>>)
Str(s)   == Node("str", 0, s, <<>>)
Arr(els) == Node("arr", 0, "", els)
Obj(ps)  == Node("obj", 0, "", ps)
\* one own property of an object: name s, value c[1]
Prop(k, v) == Node("prop", 0, k, <<v>>)

\* ToBoolean: what `!x`, `x ? :`, `x || y`, `x && y` and filter(Boolean) test
Truthy(v) ==
    CASE v.t \in {"undefined", "null", "nan"} -> FALSE
      [] v.t = "bool" -> v.n = 1
      [] v.t = "num"  -> v.n # 0
      [] v.t = "str"  -> v.s # ""
      [] OTHER        -> TRUE

\* the array index a property name denotes, -1 when it is not an index
IndexOf(k) ==
    CASE k = "0" -> 0 [] k = "1" -> 1 [] k = "2" -> 2 [] k = "3" -> 3
      [] k = "7" -> 7 [] k = "8" -> 8 [] OTHER -> -1

\* StringToNumber, on the strings of the model
StrToNumber(s) ==
    CASE s = "" -> Num(0)
      [] IndexOf(s) >= 0 -> Num(IndexOf(s))
      [] OTHER -> NaN

\* position of own property k in the property list ps, 0 when absent
RECURSIVE PropPos(_, _, _)
PropPos(ps, k, i) ==
    IF i > Len(ps) THEN 0
    ELSE IF ps[i].s = k THEN i ELSE PropPos(ps, k, i + 1)

HasOwn(o, k) == o.t = "obj" /\ PropPos(o.c, k, 1) > 0

\* v[k] for a value that is not null or undefined (those throw a TypeError)
GetProp(v, k) ==
    CASE v.t = "obj" ->
            IF PropPos(v.c, k, 1) > 0 THEN v.c[PropPos(v.c, k, 1)].c[1] ELSE Undef
      [] v.t = "arr" ->
            IF k = "length" THEN Num(Len(v.c))
            ELSE IF IndexOf(k) >= 0 /\ IndexOf(k) < Len(v.c) THEN v.c[IndexOf(k) + 1]
            ELSE Undef
      [] v.t = "str" -> IF k = "length" THEN Num(Len(v.s)) ELSE Undef
      [] OTHER -> Undef

\* reading a property of null or undefined throws
Nullish(v) == v.t \in {"undefined", "null"}

\* where a new own property k goes in ps: integer-like keys come first in
\* ascending order, the other keys follow in insertion order
RECURSIVE InsertPos(_, _, _)
InsertPos(ps, k, i) ==
    IF i > Len(ps) THEN i
    ELSE IF IndexOf(k) < 0 THEN Len(ps) + 1
    ELSE IF IndexOf(ps[i].s) < 0 \/ IndexOf(ps[i].s) > IndexOf(k) THEN i
    ELSE InsertPos(ps, k, i + 1)

\* the own properties after `o[k] = v` on an object
PutProp(ps, k, v) ==
    IF PropPos(ps, k, 1) > 0
    THEN [ps EXCEPT ![PropPos(ps, k, 1)] = Prop(k, v)]
    ELSE SubSeq(ps, 1, InsertPos(ps, k, 1) - 1) \o <<Prop(k, v)>>
         \o SubSeq(ps, InsertPos(ps, k, 1), Len(ps))

\* `target[k] = v` in a classic (non-strict) script: an object gets or
\* replaces the own property; an array takes an index (holes read undefined),
\* any other key on an array is an expando that JSON.stringify ignores; on a
\* primitive the assignment is silently dropped
SetProp(target, k, v) ==
    CASE target.t = "obj" -> Obj(PutProp(target.c, k, v))
      [] target.t = "arr" ->
            IF IndexOf(k) < 0 THEN target
            ELSE Arr([i \in 1..(IF IndexOf(k) + 1 > Len(target.c)
                                THEN IndexOf(k) + 1 ELSE Len(target.c)) |->
                        IF i = IndexOf(k) + 1 THEN v
                        ELSE IF i <= Len(target.c) THEN target.c[i] ELSE Undef])
      [] OTHER -> target

(***************************************************************************)
(* JSON text: a sequence of tokens <<kind, chars>>.  The kinds are "p"     *)
(* punctuation, "lit" one of null / true / false, "num" a number written   *)
(* in decimal, "str" a quoted string, "word" any other bare word (which is *)
(* not JSON).                                                              *)
(***************************************************************************)
\* the decimal numerals of the numbers the store writes
Numerals == <<"0", "1", "2", "3", "4", "5", "6", "7", "8", "9">>

\* the number a numeral denotes
NumeralValue(chars) == CHOOSE n \in 0..(Len(Numerals) - 1) : Numerals[n + 1] = chars

P(s)      == <<"p", s>>
Lit(s)    == <<"lit", s>>
NumTok(n) == <<"num", Numerals[n + 1]>>
StrTok(s) == <<"str", s>>
Word(s)   == <<"word", s>>

\* variant: null-valued properties are omitted as well
RECURSIVE Serializable_DropNull(_)
Serializable_DropNull(ps) ==
    IF ps = <<>> THEN <<>>
    ELSE IF Head(ps).c[1].t \in {"undefined", "null"}
         THEN Serializable_DropNull(Tail(ps))
    ELSE <<Head(ps)>> \o Serializable_DropNull(Tail(ps))

\* the own properties JSON.stringify writes: those whose value is not undefined
RECURSIVE Serializable(_)
Serializable(ps) ==
    IF ps = <<>> THEN <<>>
    ELSE IF Head(ps).c[1].t = "undefined" THEN Serializable(Tail(ps))
    ELSE <<Head(ps)>> \o Serializable(Tail(ps))

\* JSON.stringify of a value other than undefined.  Inside an array undefined
\* and NaN print as null; an object omits its undefined-valued properties.
RECURSIVE Stringify(_), StringifyElems(_), StringifyProps(_)
Stringify(v) ==
    CASE v.t \in {"null", "nan", "undefined"} -> <<Lit("null")>>
      [] v.t = "bool" -> <<Lit(IF v.n = 1 THEN "true" ELSE "false")>>
      [] v.t = "num"  -> <<NumTok(v.n)>>
      [] v.t = "str"  -> <<StrTok(v.s)>>
      [] v.t = "arr"  -> <<P("[")>> \o StringifyElems(v.c) \o <<P("]")>>
      [] v.t = "obj"  -> <<P("{")>> \o StringifyProps(Serializable(v.c)) \o <<P("}")>>

StringifyElems(els) ==
    IF els = <<>> THEN <<>>
    ELSE IF Len(els) = 1 THEN Stringify(els[1])
    ELSE StringifyElems(SubSeq(els, 1, Len(els) \div 2)) \o <<P(",")>>
         \o StringifyElems(SubSeq(els, Len(els) \div 2 + 1, Len(els)))

StringifyProps(ps) ==
    IF ps = <<>> THEN <<>>
    ELSE IF Len(ps) = 1 THEN <<StrTok(ps[1].s), P(":")>> \o Stringify(ps[1].c[1])
    ELSE <<StrTok(ps[1].s), P(":")>> \o Stringify(ps[1].c[1]) \o <<P(",")>>
         \o StringifyProps(Tail(ps))

\* what localStorage.setItem(key, JSON.stringify(value)) stores: stringify
\* returns undefined for undefined, which setItem coerces to the word undefined
JSON_stringify(value) ==
    IF value.t = "undefined" THEN <<Word("undefined")>> ELSE Stringify(value)

\* JSON.parse: recursive descent over the tokens from position i; the result
\* is [ok, v, next], next being the position after the value
ParseFail == [ok |-> FALSE, v |-> Undef, next |-> 0]
ParseOk(v, next) == [ok |-> TRUE, v |-> v, next |-> next]
IsP(ts, i, s) == i <= Len(ts) /\ ts[i] = P(s)

\* the one element of a set of one element: The({e}) has e evaluated once
The(S) == CHOOSE x \in S : TRUE

RECURSIVE ParseValue(_, _), ParseElems(_, _, _), ElemsBlock(_, _, _, _),
          ParseMembers(_, _, _), MemberAfter(_, _, _, _)
ParseValue(ts, i) ==
    IF i > Len(ts) THEN ParseFail
    ELSE CASE ts[i][1] = "lit" ->
                ParseOk(CASE ts[i][2] = "null" -> Null
                          [] ts[i][2] = "true" -> True
                          [] OTHER -> False, i + 1)
           [] ts[i][1] = "num" -> ParseOk(Num(NumeralValue(ts[i][2])), i + 1)
           [] ts[i][1] = "str" -> ParseOk(Str(ts[i][2]), i + 1)
           [] ts[i] = P("[") ->
                IF IsP(ts, i + 1, "]") THEN ParseOk(Arr(<<>>), i + 2)
                ELSE ParseElems(ts, i + 1, <<>>)
           [] ts[i] = P("{") ->
                IF IsP(ts, i + 1, "}") THEN ParseOk(Obj(<<>>), i + 2)
                ELSE ParseMembers(ts, i + 1, <<>>)
           [] OTHER -> ParseFail

\* at most k elements of an array from position i, after the elements acc:
\* [ok, done, vals, next], done telling that the closing bracket was met
ElemsBlock(ts, i, acc, k) ==
    LET r == ParseValue(ts, i) IN
    IF ~r.ok THEN [ok |-> FALSE, done |-> TRUE, vals |-> acc, next |-> 0]
    ELSE IF IsP(ts, r.next, "]")
         THEN [ok |-> TRUE, done |-> TRUE, vals |-> Append(acc, r.v),
               next |-> r.next + 1]
    ELSE IF IsP(ts, r.next, ",")
         THEN IF k = 1
              THEN [ok |-> TRUE, done |-> FALSE, vals |-> Append(acc, r.v),
                    next |-> r.next + 1]
              ELSE ElemsBlock(ts, r.next + 1, Append(acc, r.v), k - 1)
    ELSE [ok |-> FALSE, done |-> TRUE, vals |-> acc, next |-> 0]

\* the elements of an array from position i, after the elements acc, read
\* ten at a time so that a long array needs no deep recursion
ParseElems(ts, i, acc) ==
    The({IF ~b.ok THEN ParseFail
         ELSE IF b.done THEN ParseOk(Arr(b.vals), b.next)
         ELSE ParseElems(ts, b.next, b.vals) :
            b \in {ElemsBlock(ts, i, acc, 10)}})

\* the member at i was read up to r; acc holds the members before it
MemberAfter(ts, i, acc, r) ==
    IF ~r.ok THEN ParseFail
    ELSE IF IsP(ts, r.next, ",")
         THEN ParseMembers(ts, r.next + 1, PutProp(acc, ts[i][2], r.v))
    ELSE IF IsP(ts, r.next, "}")
         THEN ParseOk(Obj(PutProp(acc, ts[i][2], r.v)), r.next + 1)
    ELSE ParseFail

ParseMembers(ts, i, acc) ==
    IF ~(i + 1 <= Len(ts) /\ ts[i][1] = "str" /\ ts[i + 1] = P(":")) THEN ParseFail
    ELSE LET r == ParseValue(ts, i + 2) IN MemberAfter(ts, i, acc, r)

\* JSON.parse(text): [ok, v]; ok is FALSE where JSON.parse throws a SyntaxError
JSON_parse(ts) ==
    LET r == ParseValue(ts, 1) IN
    IF r.ok /\ r.next = Len(ts) + 1 THEN [ok |-> TRUE, v |-> r.v]
    ELSE [ok |-> FALSE, v |-> Undef]

(***************************************************************************)
(* Browser local storage and the LS wrapper.                               *)
(***************************************************************************)
STORAGE_KEYS ==
    [inventory     |-> "bl_admin_inventory",
     teams         |-> "bl_admin_teams",
     coaches       |-> "bl_admin_coaches",
     schedule      |-> "bl_admin_schedule",
     locations     |-> "bl_admin_locations",
     categories    |-> "bl_admin_categories",
     statuses      |-> "bl_admin_statuses",
     concessions   |-> "bl_admin_concessions",
     eventUsage    |-> "bl_admin_event_usage",
     eventRequests |-> "bl_admin_event_requests"]

Keys == {STORAGE_KEYS[f] : f \in DOMAIN STORAGE_KEYS}

\* one storage slot: getItem returns null for an absent key, the text otherwise
Absent == [present |-> FALSE, text |-> <<>>]
Stored(text) == [present |-> TRUE, text |-> text]

\* variant: `JSON.parse(v) || fallback`, the fallback for every falsy value
LS_get_OrFallback(st, key, fallback) ==
    IF ~st[key].present \/ st[key].text = <<>> THEN fallback
    ELSE LET parsed == JSON_parse(st[key].text) IN
         IF parsed.ok /\ Truthy(parsed.v) THEN parsed.v ELSE fallback

\* variant: `catch (_) { return undefined; }`, no fallback after a parse error
LS_get_UndefinedOnError(st, key, fallback) ==
    IF ~st[key].present \/ st[key].text = <<>> THEN fallback
    ELSE LET parsed == JSON_parse(st[key].text) IN
         IF parsed.ok THEN parsed.v ELSE Undef

\* LS.get: `v ? JSON.parse(v) : fallback`, the fallback also when parse throws
LS_get(st, key, fallback) ==
    IF ~st[key].present \/ st[key].text = <<>> THEN fallback
    ELSE LET parsed == JSON_parse(st[key].text) IN
         IF parsed.ok THEN parsed.v ELSE fallback

\* variant: the key is removed before it is written, so a failed write
\* leaves it absent
LS_set_ClearOnFail(st, key, value, ok) ==
    [st EXCEPT ![key] = IF ok THEN Stored(JSON_stringify(value)) ELSE Absent]

\* variant: a write that fails half-way leaves an empty text under the key
LS_set_TruncateOnFail(st, key, value, ok) ==
    [st EXCEPT ![key] = IF ok THEN Stored(JSON_stringify(value)) ELSE Stored(<<>>)]

\* LS.set: setItem of the stringified value; when setItem throws (quota
\* exceeded: ok = FALSE) the error is swallowed and storage is untouched
LS_set(st, key, value, ok) ==
    IF ok THEN [st EXCEPT ![key] = Stored(JSON_stringify(value))] ELSE st

(***************************************************************************)
(* The hard-coded defaults of the seed step.                               *)
(***************************************************************************)
Named(id, name) == Obj(<<Prop("id", Num(id)), Prop("name", Str(name))>>)

Event(id, date, time, type, title, location, team, coach, notes) ==
    Obj(<<Prop("id", Num(id)), Prop("date", Str(date)), Prop("time", Str(time)),
          Prop("type", Str(type)), Prop("title", Str(title)),
          Prop("location", Str(location)), Prop("team_id", Num(team)),
          Prop("coach_id", Num(coach)), Prop("notes", Str(notes))>>)

Strings(ss) == Arr([i \in 1..Len(ss) |-> Str(ss[i])])

SeedDefault(key) ==
    CASE key = STORAGE_KEYS.teams ->
            Arr(<<Named(1, "Bucksport Blue Jays"), Named(2, "Softball Stars"),
                  Named(3, "Minor League All-Stars")>>)
      [] key = STORAGE_KEYS.coaches ->
            Arr(<<Named(1, "Coach Bob"), Named(2, "Coach Sarah"),
                  Named(3, "Coach Mike")>>)
      [] key = STORAGE_KEYS.schedule ->
            Arr(<<Event(1, "2025-07-20", "18:00", "game",
                        "Bucksport Blue Jays vs. Orland Orcas", "Field A", 1, 1,
                        "Championship game!"),
                  Event(2, "2025-07-21", "17:30", "practice",
                        "Softball Team Practice", "Field B", 2, 2,
                        "Focus on fielding drills."),
                  Event(3, "2025-07-20", "16:00", "game",
                        "Minor League All-Stars", "Field C", 3, 3, "")>>)
      [] key = STORAGE_KEYS.locations ->
            Strings(<<"Field A", "Field B", "Field C", "Community Park">>)
      [] key = STORAGE_KEYS.categories ->
            Strings(<<"jersey", "pants", "hat", "cleats", "bat", "ball", "glove",
                      "helmet", "other">>)
      [] key = STORAGE_KEYS.statuses ->
            Strings(<<"in-stock", "low-stock", "out-of-stock", "needs-repair",
                      "retired">>)
      [] key = STORAGE_KEYS.eventUsage -> Obj(<<>>)
      [] OTHER -> Arr(<<>>)

\* variant: an empty list or an empty object is seeded as well
NeedsSeed_WhenEmpty(st, key) ==
    \/ ~Truthy(LS_get(st, key, Undef))
    \/ /\ LS_get(st, key, Undef).t \in {"arr", "obj"}
       /\ LS_get(st, key, Undef).c = <<>>

\* the `if (!LS.get(key))` test of the seed step: no fallback is passed, so an
\* absent or unparseable key reads undefined
NeedsSeed(st, key) == ~Truthy(LS_get(st, key, Undef))

\* the keys the seed step writes
SeedKeys(st) == {k \in Keys : NeedsSeed(st, k)}

\* storage after the seed step writes the keys of `needs`; failed is the set
\* of keys whose setItem throws
SeedStorage(st, needs, failed) ==
    [k \in Keys |->
        IF k \in needs
        THEN LS_set(st, k, SeedDefault(k), k \notin failed)[k]
        ELSE st[k]]

(***************************************************************************)
(* Number(v) and the helpers of the accessors.                             *)
(***************************************************************************)
\* Number(v); a one-element array converts as its element's string does
RECURSIVE ToNumber(_)
ToNumber(v) ==
    CASE v.t = "undefined" -> NaN
      [] v.t = "null" -> Num(0)
      [] v.t = "bool" -> Num(v.n)
      [] v.t = "num"  -> v
      [] v.t = "str"  -> StrToNumber(v.s)
      [] v.t = "arr"  ->
            IF Len(v.c) = 0 THEN Num(0)
            ELSE IF Len(v.c) > 1 THEN NaN
            ELSE IF v.c[1].t \in {"undefined", "null"} THEN Num(0)
            ELSE IF v.c[1].t \in {"num", "str", "arr"} THEN ToNumber(v.c[1])
            ELSE NaN
      [] OTHER -> NaN

\* `Number(i.quantity) || 0`, as an integer
Quantity(item) ==
    IF Truthy(ToNumber(GetProp(item, "quantity")))
    THEN ToNumber(GetProp(item, "quantity")).n ELSE 0

RECURSIVE SumQuantity(_)
SumQuantity(items) ==
    IF items = <<>> THEN 0 ELSE Quantity(Head(items)) + SumQuantity(Tail(items))

\* items.filter(i => i.status === status)
RECURSIVE WithStatus(_, _)
WithStatus(items, status) ==
    IF items = <<>> THEN <<>>
    ELSE IF GetProp(Head(items), "status") = Str(status)
         THEN <<Head(items)>> \o WithStatus(Tail(items), status)
         ELSE WithStatus(Tail(items), status)

\* a callback that reads a property of each element throws on a null element,
\* and the array methods exist on arrays only
HasNullish(els) == \E i \in 1..Len(els) : Nullish(els[i])
Iterable(v) == v.t = "arr" /\ ~HasNullish(v.c)

\* the outcome of one operation: what it returns (or that it throws / rejects)
\* and the storage it leaves
Returns(v, st) == [threw |-> FALSE, res |-> v, st |-> st]
Throws(st)     == [threw |-> TRUE, res |-> Undef, st |-> st]

(***************************************************************************)
(* The read accessors.                                                     *)
(***************************************************************************)
EmptyList == Arr(<<>>)

fetchInventory(st) == Returns(LS_get(st, STORAGE_KEYS.inventory, EmptyList), st)
fetchCoaches(st)   == Returns(LS_get(st, STORAGE_KEYS.coaches, EmptyList), st)
fetchTeams(st)     == Returns(LS_get(st, STORAGE_KEYS.teams, EmptyList), st)
fetchStatuses(st)  == Returns(LS_get(st, STORAGE_KEYS.statuses, EmptyList), st)

\* the four sums; items.reduce / items.filter throw when the stored inventory
\* is not an array or holds a null element
fetchInventorySummary(st) ==
    LET items == LS_get(st, STORAGE_KEYS.inventory, EmptyList) IN
    IF ~Iterable(items) THEN Throws(st)
    ELSE Returns(Obj(<<
            Prop("total_items", Num(SumQuantity(items.c))),
            Prop("available", Num(SumQuantity(WithStatus(items.c, "in-stock")))),
            Prop("checked_out", Num(SumQuantity(WithStatus(items.c, "checked-out")))),
            Prop("needs_repair", Num(SumQuantity(WithStatus(items.c, "needs-repair"))))
         >>), st)

\* Array.from(new Set(values)): the first occurrence of each value is kept;
\* primitives are compared by value, arrays and objects by identity (so two
\* parsed ones never coincide)
RECURSIVE Distinct(_, _)
Distinct(els, seen) ==
    IF els = <<>> THEN <<>>
    ELSE IF Head(els).t \notin {"arr", "obj"} /\ Head(els) \in seen
         THEN Distinct(Tail(els), seen)
         ELSE <<Head(els)>> \o Distinct(Tail(els), seen \cup {Head(els)})

\* items.map(i => i.category).filter(Boolean)
RECURSIVE TruthyCategories(_)
TruthyCategories(items) ==
    IF items = <<>> THEN <<>>
    ELSE IF Truthy(GetProp(Head(items), "category"))
         THEN <<GetProp(Head(items), "category")>> \o TruthyCategories(Tail(items))
         ELSE TruthyCategories(Tail(items))

\* variant: the categories are always derived from the inventory
fetchCategories_AlwaysDerived(st) ==
    LET items == LS_get(st, STORAGE_KEYS.inventory, EmptyList) IN
    IF ~Iterable(items) THEN Throws(st)
    ELSE Returns(Arr(Distinct(TruthyCategories(items.c), {})), st)

\* variant: the derived list is saved under the categories key
fetchCategories_Cache(st) ==
    LET cats  == LS_get(st, STORAGE_KEYS.categories, EmptyList)
        items == LS_get(st, STORAGE_KEYS.inventory, EmptyList)
    IN  IF Truthy(cats) /\ Truthy(GetProp(cats, "length")) THEN Returns(cats, st)
        ELSE IF ~Iterable(items) THEN Throws(st)
        ELSE Returns(Arr(Distinct(TruthyCategories(items.c), {})),
                     LS_set(st, STORAGE_KEYS.categories,
                            Arr(Distinct(TruthyCategories(items.c), {})), TRUE))

fetchCategories(st) ==
    LET cats  == LS_get(st, STORAGE_KEYS.categories, EmptyList)
        items == LS_get(st, STORAGE_KEYS.inventory, EmptyList)
    IN  IF Truthy(cats) /\ Truthy(GetProp(cats, "length")) THEN Returns(cats, st)
        ELSE IF ~Iterable(items) THEN Throws(st)
        ELSE Returns(Arr(Distinct(TruthyCategories(items.c), {})), st)

(***************************************************************************)
(* Endpoints.  An endpoint string is modelled by its segments, the parts   *)
(* of the string between slashes after the leading one: '/events/7/usage'  *)
(* is <<"events", "7", "usage">>.  An event id is the segments it          *)
(* contributes to the template `/events/${eventId}/usage`.                 *)
(***************************************************************************)
UsageEndpoint(eventId) == <<"events">> \o eventId \o <<"usage">>

\* endpoint.startsWith('/events/') && endpoint.endsWith('/usage')
IsUsageEndpoint(ep) ==
    Len(ep) >= 2 /\ ep[1] = "events" /\ ep[Len(ep)] = "usage"

\* endpoint.split('/')[2]
UsageId(ep) == ep[2]

\* variant: no try / catch around the usage lookup
fetchData_NoCatch(st, ep) ==
    IF ep = <<"schedule">> \/ ep = <<"events">>
    THEN Returns(LS_get(st, STORAGE_KEYS.schedule, EmptyList), st)
    ELSE IF ep = <<"locations">>
    THEN Returns(LS_get(st, STORAGE_KEYS.locations, EmptyList), st)
    ELSE IF ep = <<"concessions">>
    THEN Returns(LS_get(st, STORAGE_KEYS.concessions, EmptyList), st)
    ELSE IF IsUsageEndpoint(ep)
    THEN LET usage == LS_get(st, STORAGE_KEYS.eventUsage, Obj(<<>>)) IN
         IF Nullish(usage) THEN Throws(st)
         ELSE IF Truthy(GetProp(usage, UsageId(ep)))
              THEN Returns(GetProp(usage, UsageId(ep)), st)
              ELSE Returns(EmptyList, st)
    ELSE Returns(EmptyList, st)

\* fetchData: every throw inside is caught and answered with []
fetchData(st, ep) ==
    IF ep = <<"schedule">> \/ ep = <<"events">>
    THEN Returns(LS_get(st, STORAGE_KEYS.schedule, EmptyList), st)
    ELSE IF ep = <<"locations">>
    THEN Returns(LS_get(st, STORAGE_KEYS.locations, EmptyList), st)
    ELSE IF ep = <<"concessions">>
    THEN Returns(LS_get(st, STORAGE_KEYS.concessions, EmptyList), st)
    ELSE IF IsUsageEndpoint(ep)
    THEN LET usage == LS_get(st, STORAGE_KEYS.eventUsage, Obj(<<>>)) IN
         IF Nullish(usage) THEN Returns(EmptyList, st)
         ELSE IF Truthy(GetProp(usage, UsageId(ep)))
              THEN Returns(GetProp(usage, UsageId(ep)), st)
              ELSE Returns(EmptyList, st)
    ELSE Returns(EmptyList, st)

fetchEvents(st)      == fetchData(st, <<"events">>)
fetchConcessions(st) == fetchData(st, <<"concessions">>)
fetchSchedule(st)    == fetchData(st, <<"schedule">>)
fetchLocations(st)   == fetchData(st, <<"locations">>)
fetchEventUsage(st, eventId) == fetchData(st, UsageEndpoint(eventId))

(***************************************************************************)
(* The mutations.                                                          *)
(***************************************************************************)
\* the property name of array index i
KeyOfIndex(i) ==
    CASE i = 0 -> "0" [] i = 1 -> "1" [] i = 2 -> "2" [] i = 3 -> "3"
      [] i = 7 -> "7" [] OTHER -> "8"

\* the own enumerable properties `...data` copies: those of an object, the
\* indices of an array, none for null, undefined, a number, a boolean or ''
SpreadProps(data) ==
    CASE data.t = "obj" -> data.c
      [] data.t = "arr" -> [i \in 1..Len(data.c) |-> Prop(KeyOfIndex(i - 1), data.c[i])]
      [] OTHER -> <<>>

\* { ...ps, ...more }: later properties replace earlier ones of the same name
RECURSIVE PutAll(_, _)
PutAll(ps, more) ==
    IF more = <<>> THEN ps
    ELSE PutAll(PutProp(ps, Head(more).s, Head(more).c[1]), Tail(more))

\* Math.max(...list.map(i => i.id || 0)) + 1 for a non-empty list: NaN as soon
\* as one id does not convert to a number
RECURSIVE MaxId(_)
MaxId(els) ==
    LET id    == GetProp(Head(els), "id")
        first == IF Truthy(id) THEN ToNumber(id) ELSE Num(0)
    IN  IF Len(els) = 1 THEN first
        ELSE LET rest == MaxId(Tail(els)) IN
             IF first.t = "nan" \/ rest.t = "nan" THEN NaN
             ELSE IF first.n >= rest.n THEN first ELSE rest

\* variant: the length + 1 rule of the event requests
NextId_LengthPlusOne(list) ==
    IF list.t = "arr" THEN Num(Len(list.c) + 1) ELSE Num(1)

NextId(list) ==
    IF ~Truthy(GetProp(list, "length")) THEN Num(1)
    ELSE IF MaxId(list.c).t = "nan" THEN NaN
    ELSE Num(MaxId(list.c).n + 1)

Ack(status) == Obj(<<Prop("status", Str(status))>>)

\* variant: list.unshift(item), the new record first
PostConcession_Unshift(st, data, ok) ==
    LET list == LS_get(st, STORAGE_KEYS.concessions, EmptyList) IN
    IF ~Iterable(list) THEN Throws(st)
    ELSE LET item == Obj(PutAll(<<Prop("id", NextId(list))>>, SpreadProps(data))) IN
         Returns(item, LS_set(st, STORAGE_KEYS.concessions,
                              Arr(<<item>> \o list.c), ok))

\* the '/concessions' branch: { id: nextId, ...data } is pushed and returned.
\* list.length throws on null, list.map and list.push exist on arrays only,
\* and i.id throws on a null element
PostConcession(st, data, ok) ==
    LET list == LS_get(st, STORAGE_KEYS.concessions, EmptyList) IN
    IF ~Iterable(list) THEN Throws(st)
    ELSE LET item == Obj(PutAll(<<Prop("id", NextId(list))>>, SpreadProps(data))) IN
         Returns(item, LS_set(st, STORAGE_KEYS.concessions,
                              Arr(Append(list.c, item)), ok))

\* variant: an entry that exists is kept (usage[id] = usage[id] || data)
PostUsage_KeepFirst(st, ep, data, ok) ==
    LET usage == LS_get(st, STORAGE_KEYS.eventUsage, Obj(<<>>)) IN
    IF Nullish(usage) THEN Throws(st)
    ELSE Returns(Ack("success"),
                 LS_set(st, STORAGE_KEYS.eventUsage,
                        IF Truthy(GetProp(usage, UsageId(ep))) THEN usage
                        ELSE SetProp(usage, UsageId(ep), data), ok))

\* variant: the mapping is replaced by one holding the saved entry only
PostUsage_Replace(st, ep, data, ok) ==
    LET usage == LS_get(st, STORAGE_KEYS.eventUsage, Obj(<<>>)) IN
    IF Nullish(usage) THEN Throws(st)
    ELSE Returns(Ack("success"),
                 LS_set(st, STORAGE_KEYS.eventUsage,
                        SetProp(Obj(<<>>), UsageId(ep), data), ok))

\* the '/events/<id>/usage' branch: usage[id] = data
PostUsage(st, ep, data, ok) ==
    LET usage == LS_get(st, STORAGE_KEYS.eventUsage, Obj(<<>>)) IN
    IF Nullish(usage) THEN Throws(st)
    ELSE Returns(Ack("success"),
                 LS_set(st, STORAGE_KEYS.eventUsage,
                        SetProp(usage, UsageId(ep), data), ok))

\* variant: reqs.unshift(...), the new request first
PostRequest_Unshift(st, data, now, ok) ==
    LET reqs == LS_get(st, STORAGE_KEYS.eventRequests, EmptyList) IN
    IF reqs.t # "arr" THEN Throws(st)
    ELSE LET req == Obj(PutProp(PutAll(<<Prop("id", Num(Len(reqs.c) + 1))>>,
                                       SpreadProps(data)),
                                "created_at", Str(now))) IN
         Returns(Obj(<<Prop("status", Str("success")),
                       Prop("message", Str("Event request stored locally."))>>),
                 LS_set(st, STORAGE_KEYS.eventRequests,
                        Arr(<<req>> \o reqs.c), ok))

\* variant: the request is written under the schedule key
PostRequest_ScheduleKey(st, data, now, ok) ==
    LET reqs == LS_get(st, STORAGE_KEYS.eventRequests, EmptyList) IN
    IF reqs.t # "arr" THEN Throws(st)
    ELSE LET req == Obj(PutProp(PutAll(<<Prop("id", Num(Len(reqs.c) + 1))>>,
                                       SpreadProps(data)),
                                "created_at", Str(now))) IN
         Returns(Obj(<<Prop("status", Str("success")),
                       Prop("message", Str("Event request stored locally."))>>),
                 LS_set(st, STORAGE_KEYS.schedule,
                        Arr(Append(reqs.c, req)), ok))

\* the '/schedule/request' branch: { id: reqs.length + 1, ...data, created_at }
PostRequest(st, data, now, ok) ==
    LET reqs == LS_get(st, STORAGE_KEYS.eventRequests, EmptyList) IN
    IF reqs.t # "arr" THEN Throws(st)
    ELSE LET req == Obj(PutProp(PutAll(<<Prop("id", Num(Len(reqs.c) + 1))>>,
                                       SpreadProps(data)),
                                "created_at", Str(now))) IN
         Returns(Obj(<<Prop("status", Str("success")),
                       Prop("message", Str("Event request stored locally."))>>),
                 LS_set(st, STORAGE_KEYS.eventRequests,
                        Arr(Append(reqs.c, req)), ok))

\* variant: an endpoint no branch recognises is rejected
postData_RejectUnknown(st, ep, data, now, ok) ==
    IF ep = <<"concessions">> THEN PostConcession(st, data, ok)
    ELSE IF IsUsageEndpoint(ep) THEN PostUsage(st, ep, data, ok)
    ELSE IF ep = <<"schedule", "request">> THEN PostRequest(st, data, now, ok)
    ELSE Throws(st)

\* postData: the dispatcher; its catch block logs and rethrows
postData(st, ep, data, now, ok) ==
    IF ep = <<"concessions">> THEN PostConcession(st, data, ok)
    ELSE IF IsUsageEndpoint(ep) THEN PostUsage(st, ep, data, ok)
    ELSE IF ep = <<"schedule", "request">> THEN PostRequest(st, data, now, ok)
    ELSE Returns(Ack("ok"), st)

saveEventUsage(st, eventId, usageData, now, ok) ==
    postData(st, UsageEndpoint(eventId), usageData, now, ok)
addConcessionItem(st, itemData, now, ok) ==
    postData(st, <<"concessions">>, itemData, now, ok)
requestNewEvent(st, eventData, now, ok) ==
    postData(st, <<"schedule", "request">>, eventData, now, ok)
syncEventInventory(st, eventId) == Returns(Ack("ok"), st)

(***************************************************************************)
(* The inputs the operations are called with.                              *)
(***************************************************************************)
ConcessionPayloads ==
    {Obj(<<Prop("name", Str("Hot Dog"))>>),
     Obj(<<Prop("id", Num(1)), Prop("name", Str("Soda"))>>)}

UsagePayloads ==
    {Obj(<<Prop("hotdogs", Num(2))>>), Arr(<<Num(4)>>), Null}

RequestPayloads == {Obj(<<Prop("title", Str("Scrimmage"))>>)}

\* event ids, as endpoint segments: "7", "8" and "7/x"
EventIds == {<<"7">>, <<"8">>, <<"7", "x">>}

\* new Date().toISOString()
Timestamps == {"2025-07-20T12:00:00.000Z"}

ReadEndpoints ==
    {<<"schedule">>, <<"events">>, <<"locations">>, <<"concessions">>, <<"teams">>}
    \cup {UsageEndpoint(e) : e \in EventIds}

OtherEndpoints == {<<"inventory">>, <<"events", "7", "sync">>}

\* the sets of keys whose write may fail during one seed run
FailSets(needs) == {S \in SUBSET needs : Cardinality(S) <= MaxFail}

(***************************************************************************)
(* State.  storage is the browser's local storage restricted to the keys  *)
(* of the part under study; last records the operation that ran last, with *)
(* its endpoint, argument, result and the keys whose setItem threw;        *)
(* assigned is the history of the ids given to stored concession records;  *)
(* auth is the page being loaded under the authentication manager; posted  *)
(* is what the activity logger sent to the backend; logger is the activity *)
(* logger of the page; view is the page under the mobile detection script. *)
(***************************************************************************)
Did(op, ep, arg, out, failed) ==
    [op |-> op, ep |-> ep, arg |-> arg, res |-> out.res, threw |-> out.threw,
     failed |-> failed]

\* no page of the site is loading
NoPage == [pc |-> "none"]

\* no activity logger was constructed
NoLogger == [build |-> "none"]

\* no page runs the mobile detection script
NoView == [pc |-> "none"]

NoOp == Did("none", <<>>, Undef, Returns(Undef, <<>>), {})

Fresh == [k \in Keys |-> Absent]

Init ==
    /\ storage = Fresh
    /\ last = NoOp
    /\ assigned = {}
    /\ auth = NoPage
    /\ posted = <<>>
    /\ logger = NoLogger
    /\ view = NoView

\* an operation that writes at most the key `key`
Apply(op, ep, arg, out, key, ok) ==
    /\ storage' = out.st
    /\ last' = Did(op, ep, arg, out, IF ok \/ out.threw THEN {} ELSE {key})
    /\ UNCHANGED <<auth, posted, logger, view>>

\* an operation that writes nothing
Read(op, ep, arg, out) ==
    /\ storage' = out.st
    /\ last' = Did(op, ep, arg, out, {})
    /\ UNCHANGED <<assigned, auth, posted, logger, view>>

\* the seed step, run when the script loads (every page load)
seedIfEmpty ==
    LET needs == SeedKeys(storage) IN
    \E failed \in FailSets(needs) :
        /\ storage' = SeedStorage(storage, needs, failed)
        /\ last' = Did("seedIfEmpty", <<>>, Undef, Returns(Undef, storage), failed)
        /\ UNCHANGED <<assigned, auth, posted, logger, view>>

\* the stored concessions list may still grow within the bounds
MayPost(st) ==
    LET list == LS_get(st, STORAGE_KEYS.concessions, EmptyList) IN
    Iterable(list) =>
        /\ Len(list.c) < MaxLen
        /\ NextId(list).t = "num" => NextId(list).n <= MaxConcessionId

AddConcessionItemOf(payloads) ==
    \E data \in payloads, now \in Timestamps, ok \in BOOLEAN :
        LET out == addConcessionItem(storage, data, now, ok) IN
        /\ MayPost(storage)
        /\ Apply("addConcessionItem", <<"concessions">>, data, out,
                 STORAGE_KEYS.concessions, ok)
        /\ assigned' = IF ok /\ ~out.threw
                       THEN assigned \cup {GetProp(out.res, "id")} ELSE assigned

\* the page removes one concession record: it writes the list without the
\* record back through LS.set
RemoveAt(els, i) == SubSeq(els, 1, i - 1) \o SubSeq(els, i + 1, Len(els))

RemoveConcession ==
    LET list == LS_get(storage, STORAGE_KEYS.concessions, EmptyList) IN
    /\ list.t = "arr"
    /\ \E i \in 1..Len(list.c) :
        /\ storage' = LS_set(storage, STORAGE_KEYS.concessions,
                             Arr(RemoveAt(list.c, i)), TRUE)
        /\ last' = Did("removeConcession", <<"concessions">>, list.c[i],
                       Returns(Undef, storage), {})
    /\ UNCHANGED <<assigned, auth, posted, logger, view>>

SaveEventUsageOf(ids, payloads) ==
    \E e \in ids, data \in payloads, now \in Timestamps, ok \in BOOLEAN :
        /\ Apply("saveEventUsage", UsageEndpoint(e), data,
                 saveEventUsage(storage, e, data, now, ok),
                 STORAGE_KEYS.eventUsage, ok)
        /\ UNCHANGED assigned

MayRequest(st) ==
    LET reqs == LS_get(st, STORAGE_KEYS.eventRequests, EmptyList) IN
    reqs.t = "arr" => Len(reqs.c) < MaxLen

RequestNewEventOf(payloads) ==
    \E data \in payloads, now \in Timestamps, ok \in BOOLEAN :
        /\ MayRequest(storage)
        /\ Apply("requestNewEvent", <<"schedule", "request">>, data,
                 requestNewEvent(storage, data, now, ok),
                 STORAGE_KEYS.eventRequests, ok)
        /\ UNCHANGED assigned

RequestNewEvent == RequestNewEventOf(RequestPayloads)

\* postData on an endpoint none of the three branches recognises
PostOther ==
    \E ep \in OtherEndpoints, now \in Timestamps :
        Read("postData", ep, Obj(<<>>), postData(storage, ep, Obj(<<>>), now, TRUE))

SyncEventInventory ==
    \E e \in EventIds :
        Read("syncEventInventory", e, Undef, syncEventInventory(storage, e))

FetchInventory == Read("fetchInventory", <<>>, Undef, fetchInventory(storage))
FetchInventorySummary ==
    Read("fetchInventorySummary", <<>>, Undef, fetchInventorySummary(storage))
FetchCoaches    == Read("fetchCoaches", <<>>, Undef, fetchCoaches(storage))
FetchTeams      == Read("fetchTeams", <<>>, Undef, fetchTeams(storage))
FetchCategories == Read("fetchCategories", <<>>, Undef, fetchCategories(storage))
FetchStatuses   == Read("fetchStatuses", <<>>, Undef, fetchStatuses(storage))

FetchData ==
    \E ep \in ReadEndpoints : Read("fetchData", ep, Undef, fetchData(storage, ep))

\* the generic accessors, called directly
JsonValues ==
    {Null, True, False, Num(0), Num(5), Str(""), Str("abc"), EmptyList, Obj(<<>>),
     Arr(<<Null, Num(1)>>),
     Obj(<<Prop("7", Arr(<<Obj(<<Prop("b", Str(""))>>)>>)), Prop("a", Null)>>)}

Fallbacks == {Undef, EmptyList, Obj(<<>>)}

LSKeys == {STORAGE_KEYS.inventory, STORAGE_KEYS.eventUsage}

LSSet ==
    \E key \in LSKeys, value \in JsonValues \cup {Undef}, ok \in BOOLEAN :
        /\ Apply("LS.set", <<key>>, value,
                 Returns(Undef, LS_set(storage, key, value, ok)), key, ok)
        /\ UNCHANGED assigned

LSGet ==
    \E key \in LSKeys, fallback \in Fallbacks :
        Read("LS.get", <<key>>, fallback,
             Returns(LS_get(storage, key, fallback), storage))

(***************************************************************************)
(* Spec: one browser profile from empty storage.  The script loads (the    *)
(* seed step) and the pages post, save and request; any page load runs     *)
(* the seed step again.                                                    *)
(***************************************************************************)
Loaded == last.op # "none"

AddConcessionItem == AddConcessionItemOf(ConcessionPayloads)
SaveEventUsage    == SaveEventUsageOf(EventIds, UsagePayloads)

\* the whole store, each mutation with one input
AddOne  == AddConcessionItemOf({Obj(<<Prop("name", Str("Hot Dog"))>>)})
SaveOne == SaveEventUsageOf({<<"7">>}, {Obj(<<Prop("hotdogs", Num(2))>>)})

Next ==
    \/ seedIfEmpty
    \/ Loaded /\ AddOne
    \/ Loaded /\ SaveOne
    \/ Loaded /\ RequestNewEvent
    \/ Loaded /\ PostOther
    \/ Loaded /\ SyncEventInventory

Spec == Init /\ [][Next]_vars

\* SpecConcessions: the concessions collection, posts and removals
NextConcessions ==
    \/ seedIfEmpty
    \/ Loaded /\ AddConcessionItem
    \/ Loaded /\ RemoveConcession

SpecConcessions == Init /\ [][NextConcessions]_vars

\* SpecRequests: the event requests, with payloads that carry an id or a
\* created_at of their own
RequestPayloadsAny ==
    RequestPayloads \cup
    {Obj(<<Prop("id", Num(5)), Prop("title", Str("Clinic"))>>),
     Obj(<<Prop("created_at", Str("yesterday"))>>)}

NextRequests ==
    \/ seedIfEmpty
    \/ Loaded /\ RequestNewEventOf(RequestPayloadsAny)

SpecRequests == Init /\ [][NextRequests]_vars

\* SpecUsage: the event-usage mapping
NextUsage ==
    \/ seedIfEmpty
    \/ Loaded /\ SaveEventUsage

SpecUsage == Init /\ [][NextUsage]_vars

(***************************************************************************)
(* SpecStored: one operation on storage as a page may find it.  Up to      *)
(* MaxDirty keys hold a text left there through the generic set operation  *)
(* or by another script of the origin; the other keys hold their seeded    *)
(* default.                                                                *)
(***************************************************************************)
\* texts that do not parse: the empty string, the word undefined that
\* LS.set(key, undefined) stores, and a truncated array
Unparseable == {<<>>, <<Word("undefined")>>, <<P("["), NumTok(1)>>}

\* what a key may hold: nothing, a text that does not parse, or the text of
\* a JSON value of any type
DirtySlots ==
    {Absent} \cup {Stored(t) : t \in {<<>>, <<Word("undefined")>>}} \cup
    {Stored(JSON_stringify(v)) :
        v \in {Null, Num(0), Str(""), Str("abc"), EmptyList, Obj(<<>>),
               Arr(<<Null>>)}}

Seeded == SeedStorage(Fresh, Keys, {})

StoredStates ==
    {[k \in Keys |-> IF k \in DOMAIN d THEN d[k] ELSE Seeded[k]] :
        d \in UNION {[D -> DirtySlots] :
                        D \in {S \in SUBSET Keys : Cardinality(S) <= MaxDirty}}}

InitStored ==
    /\ storage \in StoredStates \cup {Fresh}
    /\ last = NoOp
    /\ assigned = {}
    /\ auth = NoPage
    /\ posted = <<>>
    /\ logger = NoLogger
    /\ view = NoView

Once ==
    \/ seedIfEmpty
    \/ AddConcessionItem
    \/ SaveEventUsage
    \/ RequestNewEvent
    \/ PostOther
    \/ SyncEventInventory
    \/ FetchInventory
    \/ FetchInventorySummary
    \/ FetchCoaches
    \/ FetchTeams
    \/ FetchCategories
    \/ FetchStatuses
    \/ FetchData

NextStored == ~Loaded /\ Once

SpecStored == InitStored /\ [][NextStored]_vars

(***************************************************************************)
(* SpecDispatch: one postData call on an endpoint that is not one of the   *)
(* three the pages use, on storage as a page may find it.                  *)
(***************************************************************************)
\* '/inventory', '/events/7/sync', '/concessions/1', '/schedule',
\* '/events/usage' and '/usage'
DispatchEndpoints ==
    OtherEndpoints \cup
    {<<"concessions", "1">>, <<"schedule">>, <<"events", "usage">>, <<"usage">>}

PostData ==
    \E ep \in DispatchEndpoints, data \in UsagePayloads, now \in Timestamps,
       ok \in BOOLEAN :
        LET out == postData(storage, ep, data, now, ok) IN
        /\ storage' = out.st
        /\ last' = Did("postData", ep, data, out,
                       IF IsUsageEndpoint(ep) /\ ~ok /\ ~out.threw
                       THEN {STORAGE_KEYS.eventUsage} ELSE {})
        /\ UNCHANGED <<assigned, auth, posted, logger, view>>

NextDispatch == ~Loaded /\ PostData

SpecDispatch == InitStored /\ [][NextDispatch]_vars

(***************************************************************************)
(* SpecLS: one call of the generic accessors on two keys holding anything. *)
(***************************************************************************)
LSSlots ==
    {Absent} \cup {Stored(t) : t \in Unparseable} \cup
    {Stored(JSON_stringify(v)) : v \in JsonValues}

InitLS ==
    /\ storage \in {[k \in Keys |-> IF k \in LSKeys THEN d[k] ELSE Absent] :
                        d \in [LSKeys -> LSSlots]}
    /\ last = NoOp
    /\ assigned = {}
    /\ auth = NoPage
    /\ posted = <<>>
    /\ logger = NoLogger
    /\ view = NoView

NextLS == ~Loaded /\ (LSSet \/ LSGet)

SpecLS == InitLS /\ [][NextLS]_vars

(***************************************************************************)
(* SpecInventory: the derived reads on inventories of up to MaxItems       *)
(* items, with the category list seeded, emptied or replaced.              *)
(***************************************************************************)
Item(q, status, cat) ==
    Obj(PutAll(<<>>, (IF q = Undef THEN <<>> ELSE <<Prop("quantity", q)>>)
                     \o <<Prop("status", Str(status))>>
                     \o (IF cat = Undef THEN <<>> ELSE <<Prop("category", cat)>>)))

ItemSet ==
    {Item(Num(3), "in-stock", Str("bat")),
     Item(Num(2), "needs-repair", Str("ball")),
     Item(Str("x"), "in-stock", Str("bat")),
     Item(Undef, "checked-out", Str("")),
     Item(Num(1), "checked-out", Undef),
     Item(Str("2"), "in-stock", Null),
     Item(True, "needs-repair", Str("glove"))}

Inventories == UNION {[1..n -> ItemSet] : n \in 0..MaxItems}

CategoryLists == {SeedDefault(STORAGE_KEYS.categories), EmptyList, Strings(<<"bat">>)}

InitInventory ==
    /\ storage \in {[Seeded EXCEPT
                        ![STORAGE_KEYS.inventory] = Stored(JSON_stringify(Arr(items))),
                        ![STORAGE_KEYS.categories] = Stored(JSON_stringify(cats))] :
                        items \in Inventories, cats \in CategoryLists}
    /\ last = NoOp
    /\ assigned = {}
    /\ auth = NoPage
    /\ posted = <<>>
    /\ logger = NoLogger
    /\ view = NoView

NextInventory ==
    ~Loaded /\ (FetchInventory \/ FetchInventorySummary \/ FetchCategories)

SpecInventory == InitInventory /\ [][NextInventory]_vars

(***************************************************************************)
(* The authentication manager: src/local_site/js/auth.js, and the copy     *)
(* without development mode in src/unnamed/part_006.  One page load:       *)
(* the script constructs the manager from local storage, the page's        *)
(* DOMContentLoaded handler calls requireAuth, which may wait for the      *)
(* backend's answer to GET /auth/me, and then initialises the page.        *)
(***************************************************************************)
AuthKeys == {"auth_token", "user_info", "dev_mode"}
Builds == {"auth.js", "part_006"}
LoginPage == "/login.html"

\* localStorage.getItem of a key holding a plain string: null when absent
RawItem(st, key) ==
    IF ~st[key].present THEN Null
    ELSE IF st[key].text = <<>> THEN Str("") ELSE Str(st[key].text[1][2])

\* the tokens for which token.startsWith('dev_token_') holds
DevTokens == {"dev_token_1"}

\* constructor: token = getItem('auth_token'),
\* userInfo = JSON.parse(getItem('user_info') || 'null'), which throws on a
\* text that does not parse
AuthManager(st) ==
    LET text == IF st["user_info"].present /\ st["user_info"].text # <<>>
                THEN st["user_info"].text ELSE <<Lit("null")>>
        parsed == JSON_parse(text)
    IN  [threw |-> ~parsed.ok,
         token |-> RawItem(st, "auth_token"),
         userInfo |-> IF parsed.ok THEN parsed.v ELSE Undef]

isAuthenticated(am) == Truthy(am.token) /\ Truthy(am.userInfo)
isAdmin(am) == Truthy(am.userInfo) /\ GetProp(am.userInfo, "role") = Str("admin")
isBoardMember(am) ==
    Truthy(am.userInfo) /\ GetProp(am.userInfo, "role") = Str("board_member")

\* variant: the fundraising exception is missing
hasPagePermission_BoardFull(am, pageName) ==
    IF isAdmin(am) \/ isBoardMember(am) THEN [read |-> TRUE, write |-> TRUE]
    ELSE [read |-> FALSE, write |-> FALSE]

hasPagePermission(am, pageName) ==
    IF isAdmin(am) THEN [read |-> TRUE, write |-> TRUE]
    ELSE IF isBoardMember(am)
         THEN IF pageName = "fundraising" THEN [read |-> TRUE, write |-> FALSE]
              ELSE [read |-> TRUE, write |-> TRUE]
    ELSE [read |-> FALSE, write |-> FALSE]

\* window.location.pathname of the pages, with
\* pathname.includes('login.html') and
\* pathname.split('/').pop().replace('.html', '') || 'index'
Paths == {"/login.html", "/index.html", "/fundraising.html", "/"}
IsLoginPath(path) == path = "/login.html"
PageNameOf(path) ==
    CASE path = "/fundraising.html" -> "fundraising"
      [] path = "/login.html" -> "login"
      [] OTHER -> "index"

\* variant: logout leaves the development flag in storage
logout_KeepDevMode(build, st) ==
    [k \in DOMAIN st |->
        IF k \in {"auth_token", "user_info"} THEN Absent ELSE st[k]]

\* logout: the keys are removed (dev_mode by auth.js only), the manager
\* forgets the session and the browser is sent to the login page
logout(build, st) ==
    [k \in DOMAIN st |->
        IF k \in {"auth_token", "user_info"} \/ (k = "dev_mode" /\ build = "auth.js")
        THEN Absent ELSE st[k]]

LoggedOut(page) ==
    [page EXCEPT !.token = Null, !.userInfo = Null, !.href = LoginPage]

\* initializeUI (nothing without user info), then applyPagePermissions on
\* the fundraising page: without write permission the submit of every form
\* is prevented
Initialised(page) ==
    LET perm == hasPagePermission(page, "fundraising") IN
    [page EXCEPT !.pc = "done", !.ret = "true",
                 !.ui = Truthy(page.userInfo),
                 !.perms = (PageNameOf(page.path) = "fundraising"),
                 !.blocked = (PageNameOf(page.path) = "fundraising" /\ ~perm.write)]

Refused(page) == [page EXCEPT !.pc = "done", !.ret = "false", !.href = LoginPage]

\* the script: const authManager = new AuthManager(); the handler is
\* registered unless the page is the login page.  When the constructor
\* throws, the script ends there and no handler is registered.
Script ==
    LET am == AuthManager(storage) IN
    /\ auth.pc = "script"
    /\ auth' = IF am.threw THEN [auth EXCEPT !.pc = "crashed"]
               ELSE [auth EXCEPT !.token = am.token, !.userInfo = am.userInfo,
                                 !.pc = IF IsLoginPath(auth.path)
                                        THEN "unprotected" ELSE "ready"]
    /\ UNCHANGED <<storage, last, assigned, posted, logger, view>>

\* the DOMContentLoaded handler up to the first await that waits: requireAuth
\* and the start of verifyToken
DOMContentLoaded ==
    LET isDevMode == auth.build = "auth.js" /\ storage["dev_mode"] = Stored(<<Lit("true")>>)
        seen == [auth EXCEPT !.devMode = isDevMode,
                             !.missing = ~isAuthenticated(auth)]
    IN
    /\ auth.pc = "ready"
    /\ auth' = IF ~isAuthenticated(auth) THEN Refused(seen)
               ELSE IF isDevMode /\ auth.token.s \in DevTokens
                    THEN Initialised(seen)
               ELSE [seen EXCEPT !.pc = "fetching"]
    /\ UNCHANGED <<storage, last, assigned, posted, logger, view>>
\* what the backend may return as the user of a valid token
UserOf(role) == Obj(<<Prop("role", Str(role)), Prop("first_name", Str("Pat"))>>)
UserData == {UserOf("admin"), UserOf("board_member"), UserOf("coach"), Null}

\* the rest of requireAuth and of the handler, once fetch has settled: the
\* backend answered OK with the user, answered with an error status, or the
\* request (or the reading of its body) raised
Respond ==
    \E answer \in {"ok", "rejected", "error"}, userData \in UserData :
        LET heard == [auth EXCEPT !.answer = answer] IN
        /\ auth.pc = "fetching"
        /\ IF answer = "ok"
           THEN /\ auth' = Initialised([heard EXCEPT !.userInfo = userData])
                /\ storage' = [storage EXCEPT
                                !["user_info"] = Stored(JSON_stringify(userData))]
           ELSE IF answer = "error" /\ auth.devMode
           THEN /\ auth' = Initialised(heard)
                /\ storage' = storage
           ELSE /\ auth' = Refused(LoggedOut(heard))
                /\ storage' = logout(auth.build, storage)
        /\ UNCHANGED <<last, assigned, posted, logger, view>>

\* the logout button wired by initializeUI
Logout ==
    /\ auth.pc = "done" /\ auth.ui /\ auth.href # LoginPage
    /\ auth' = LoggedOut(auth)
    /\ storage' = logout(auth.build, storage)
    /\ UNCHANGED <<last, assigned, posted, logger, view>>

\* local storage as a page load may find it: no token, a session token or a
\* development token; no user info, the info of a user, null or a text that
\* does not parse; the development flag set or not
AuthStorages ==
    {[k \in AuthKeys |-> CASE k = "auth_token" -> t [] k = "user_info" -> u
                           [] OTHER -> d] :
        t \in {Absent, Stored(<<Word("jwt")>>), Stored(<<Word("dev_token_1")>>)},
        u \in {Absent, Stored(<<Word("undefined")>>)}
              \cup {Stored(JSON_stringify(v)) : v \in UserData},
        d \in {Absent, Stored(<<Lit("true")>>)}}

PageLoad(build, path) ==
    [pc |-> "script", build |-> build, path |-> path, href |-> path,
     token |-> Null, userInfo |-> Null, devMode |-> FALSE, missing |-> FALSE,
     ret |-> "none", answer |-> "none",
     ui |-> FALSE, perms |-> FALSE, blocked |-> FALSE]

InitAuth ==
    /\ storage \in AuthStorages
    /\ auth \in {PageLoad(b, p) : b \in Builds, p \in Paths}
    /\ last = NoOp
    /\ assigned = {}
    /\ posted = <<>>
    /\ logger = NoLogger
    /\ view = NoView

NextAuth == Script \/ DOMContentLoaded \/ Respond \/ Logout

SpecAuth == InitAuth /\ [][NextAuth]_vars

(***************************************************************************)
(* The activity logger (src/unnamed/part_005).  A text built by a template *)
(* literal is modelled by the sequence of its pieces.                      *)
(***************************************************************************)
\* String(v) of a primitive, as a template literal inserts it
TextOf(v) ==
    CASE v.t = "str" -> v.s
      [] v.t = "num" -> Numerals[v.n + 1]
      [] v.t = "bool" -> IF v.n = 1 THEN "true" ELSE "false"
      [] v.t = "null" -> "null"
      [] OTHER -> "undefined"

\* field.charAt(0).toUpperCase() + field.slice(1)
FieldLabel(field) ==
    CASE field = "quantity" -> "Quantity"
      [] field = "name" -> "Name"
      [] OTHER -> "Notes"

\* data[field] || 'N/A'
OrNA(v) == IF Truthy(v) THEN v ELSE Str("N/A")

\* the changes pushed by the forEach: `Label: "old" -> "new"` for each field
\* whose two sides, after || 'N/A', are not identical
Changes(originalData, newData, fields) ==
    SelectSeq([i \in 1..Len(fields) |->
                  [label |-> FieldLabel(fields[i]),
                   old |-> TextOf(OrNA(GetProp(originalData, fields[i]))),
                   new |-> TextOf(OrNA(GetProp(newData, fields[i]))),
                   differ |-> OrNA(GetProp(originalData, fields[i]))
                              # OrNA(GetProp(newData, fields[i]))]],
              LAMBDA c : c.differ)

\* the user name of logActivity: 'Admin' unless the auth manager has a user
UserName(page) ==
    IF page = NoPage \/ ~Truthy(page.userInfo) THEN <<"Admin">>
    ELSE <<TextOf(GetProp(page.userInfo, "first_name")), " ",
           TextOf(GetProp(page.userInfo, "last_name"))>>

\* the entry logActivity builds and posts to /api/activity-logs
Entry(action, details, page, pageName) ==
    [action |-> action, details |-> details, user |-> UserName(page),
     page |-> pageName, item_id |-> Null]

\* logChanges: the entry it hands to logActivity, if any; the changes are
\* joined with ', '
logChanges(itemName, originalData, newData, fieldsToCompare, page, pageName) ==
    LET changes == Changes(originalData, newData, fieldsToCompare) IN
    IF changes # <<>>
    THEN [logged |-> TRUE,
          entry |-> Entry(<<itemName, " Updated">>, changes, page, pageName)]
    ELSE [logged |-> FALSE, entry |-> Undef]

\* the items a page edits: quantity missing, 0, 5 or '', and a name
ItemRecord(q, n) ==
    Obj((IF q = Undef THEN <<>> ELSE <<Prop("quantity", q)>>) \o <<Prop("name", n)>>)
ItemRecords ==
    {ItemRecord(q, n) : q \in {Undef, Num(0), Num(5), Str("")},
                        n \in {Str("Bat"), Str("Ball")}}
FieldLists == {<<"quantity", "name">>, <<"name">>, <<"quantity">>}

LogChanges ==
    \E original \in ItemRecords, updated \in ItemRecords, fields \in FieldLists :
        LET out == logChanges("Bat", original, updated, fields, auth, "inventory") IN
        /\ Len(posted) < MaxLen
        /\ last' = [op |-> "logChanges", ep |-> <<>>,
                    arg |-> [original |-> original, updated |-> updated,
                             fields |-> fields],
                    res |-> out, threw |-> FALSE, failed |-> {}]
        /\ posted' = IF out.logged THEN Append(posted, out.entry) ELSE posted
        /\ UNCHANGED <<storage, assigned, auth, logger, view>>

\* the logger runs on a page with or without a signed-in user
InitChanges ==
    /\ storage = Fresh
    /\ last = NoOp
    /\ assigned = {}
    /\ auth \in {NoPage,
                 [PageLoad("auth.js", "/index.html") EXCEPT
                    !.pc = "done", !.ret = "true", !.answer = "ok",
                    !.token = Str("jwt"), !.userInfo = UserOf("admin"), !.ui = TRUE]}
    /\ posted = <<>>
    /\ logger = NoLogger
    /\ view = NoView

NextChanges == LogChanges

SpecChanges == InitChanges /\ [][NextChanges]_vars

(***************************************************************************)
(* The activity loggers.  part_002 keeps the log of a page in local        *)
(* storage (and in memory); part_005 posts each entry to the backend and   *)
(* falls back to the local log of the page when the post fails.            *)
(***************************************************************************)
LoggerBuilds == {"part_002", "part_005"}

\* `${pageName}_activity_log`
StorageKey(pageName) == pageName \o "_activity_log"
masterLogKey == "master_activity_log"

PageNameLogged == "inventory"
LogKeys == {StorageKey(PageNameLogged), masterLogKey}

\* the length the local log of a page is cut to
MaxLogEntries == 100

\* log calls in one behaviour
MaxLogged == 2

\* new Date().toISOString(): the text of the clock reading
Iso(now) == ToString(now)
ClockStart == MaxLogEntries + 1
TimeOf(text) == CHOOSE n \in 0..(ClockStart + MaxLogged + 1) : Iso(n) = text

\* JSON.parse(localStorage.getItem(key) || '[]')
StoredLog(st, key) ==
    JSON_parse(IF st[key].present /\ st[key].text # <<>> THEN st[key].text
               ELSE <<P("["), P("]")>>)

\* localStorage.setItem(key, JSON.stringify(value)); it throws when the
\* browser refuses the write (ok = FALSE)
setItem(st, key, value, ok) ==
    IF ok THEN Returns(Undef, [st EXCEPT ![key] = Stored(JSON_stringify(value))])
    ELSE Throws(st)

\* the first n elements: slice(0, n), and what splice(n) leaves
Take(els, n) == SubSeq(els, 1, IF Len(els) < n THEN Len(els) ELSE n)

\* part_002, logActivity's entry
TimedEntry(action, details, pageName, now) ==
    Obj(<<Prop("timestamp", Str(Iso(now))), Prop("action", Str(action)),
          Prop("details", Str(details)), Prop("user", Str("Admin")),
          Prop("page", Str(pageName))>>)

\* part_002, addToMasterLog: the master log has no limit
addToMasterLog(st, entry, ok) ==
    LET masterLog == StoredLog(st, masterLogKey) IN
    IF ~masterLog.ok \/ masterLog.v.t # "arr" THEN Throws(st)
    ELSE setItem(st, masterLogKey, Arr(<<entry>> \o masterLog.v.c), ok)

\* part_002, logActivity: the entry is put in front of the log in memory,
\* which is cut to its first 100 and written under the key of the page,
\* then the entry goes to the master log.  failing names the setItem the
\* browser refuses, if any; [threw, st, activityLog]
LocalLogActivity(activityLog, st, pageName, action, details, now, failing) ==
    IF activityLog.t # "arr" THEN [threw |-> TRUE, st |-> st, activityLog |-> activityLog]
    ELSE LET entry == TimedEntry(action, details, pageName, now)
             log == Arr(Take(<<entry>> \o activityLog.c, MaxLogEntries))
             page == setItem(st, StorageKey(pageName), log, failing # "page")
             master == addToMasterLog(page.st, entry, failing # "master")
         IN  IF page.threw THEN [threw |-> TRUE, st |-> st, activityLog |-> log]
             ELSE [threw |-> master.threw, st |-> master.st, activityLog |-> log]

\* part_005, logActivity's entry; the pages modelled here have no signed-in
\* user, so the user name is 'Admin'
PostedEntry(action, details, pageName, itemId) ==
    Obj(<<Prop("action", Str(action)), Prop("details", Str(details)),
          Prop("user", Str("Admin")), Prop("page", Str(pageName)),
          Prop("item_id", itemId)>>)

\* variant: the log is written without the cut to 100
fallbackToLocalStorage_NoCut(st, pageName, entry, now, ok) ==
    LET logs == StoredLog(st, StorageKey(pageName)) IN
    IF ~logs.ok \/ logs.v.t # "arr" THEN Throws(st)
    ELSE setItem(st, StorageKey(pageName),
                 Arr(<<Obj(PutProp(entry.c, "timestamp", Str(Iso(now))))>>
                     \o logs.v.c), ok)

\* part_005, fallbackToLocalStorage: the stored log of the page is read,
\* {...entry, timestamp} is put in front, the log is cut to 100 and written
\* back; an unparseable or non-array log and a refused write throw
fallbackToLocalStorage(st, pageName, entry, now, ok) ==
    LET logs == StoredLog(st, StorageKey(pageName)) IN
    IF ~logs.ok \/ logs.v.t # "arr" THEN Throws(st)
    ELSE setItem(st, StorageKey(pageName),
                 Arr(Take(<<Obj(PutProp(entry.c, "timestamp", Str(Iso(now))))>>
                          \o logs.v.c, MaxLogEntries)), ok)

\* part_005, logActivity after its fetch settled: nothing more when the
\* backend answered OK; otherwise (a non-OK response or a network error)
\* the fallback.  A fallback that throws after a non-OK response is caught
\* by the catch block, which calls the fallback again; what that one throws
\* rejects the promise of logActivity
Settled(st, pageName, entry, now, answer, ok) ==
    IF answer = "ok" THEN Returns(Undef, st)
    ELSE LET first == fallbackToLocalStorage(st, pageName, entry, now, ok) IN
         IF answer = "rejected" /\ first.threw
         THEN fallbackToLocalStorage(first.st, pageName, entry, now, ok)
         ELSE first

\* part_005, fetchActivityLogs: the list of the backend, or after a failed
\* request the parsed local log of the page filter, the master log without
\* a filter
fetchActivityLogs(st, pageFilter, answer, rows) ==
    IF answer = "ok" THEN Returns(rows, st)
    ELSE LET logs == StoredLog(st, IF Truthy(pageFilter)
                                   THEN StorageKey(pageFilter.s) ELSE masterLogKey)
         IN  IF logs.ok THEN Returns(logs.v, st) ELSE Throws(st)

\* the constructors: part_002 reads the stored log of the page into memory
ActivityLogger(build, pageName, st) ==
    [build |-> build, pageName |-> pageName, now |-> ClockStart, calls |-> 0,
     activityLog |-> IF build = "part_002"
                     THEN StoredLog(st, StorageKey(pageName)).v ELSE EmptyList,
     pending |-> <<>>, db |-> <<>>]

LogActions == {"Item Added"}

\* part_002: logActivity(action, details)
LocalLog ==
    \E action \in LogActions, failing \in {"none", "page", "master"} :
        LET out == LocalLogActivity(logger.activityLog, storage, logger.pageName,
                                    action, "Bat", logger.now, failing) IN
        /\ logger.build = "part_002"
        /\ logger.calls < MaxLogged
        /\ storage' = out.st
        /\ logger' = [logger EXCEPT !.activityLog = out.activityLog,
                                    !.now = @ + 1, !.calls = @ + 1]
        /\ last' = [op |-> "logActivity", ep |-> <<>>,
                    arg |-> TimedEntry(action, "Bat", logger.pageName, logger.now),
                    res |-> Undef, threw |-> out.threw,
                    failed |-> IF failing = "none" THEN {} ELSE {failing}]
        /\ UNCHANGED <<assigned, auth, posted, view>>

\* part_005: logActivity(action, details) up to its await: the entry is
\* posted to /api/activity-logs
PostLog ==
    \E action \in LogActions :
        LET entry == PostedEntry(action, "Bat", logger.pageName, Null) IN
        /\ logger.build = "part_005"
        /\ logger.calls < MaxLogged
        /\ logger' = [logger EXCEPT !.pending = Append(@, entry), !.calls = @ + 1]
        /\ posted' = Append(posted, JSON_stringify(entry))
        /\ last' = [op |-> "post", ep |-> <<"api", "activity-logs">>,
                    arg |-> entry, res |-> Undef, threw |-> FALSE, failed |-> {}]
        /\ UNCHANGED <<storage, assigned, auth, view>>

\* part_005: the fetch of a pending logActivity settles, and the call ends.
\* The backend keeps the entry it answers OK for
Settle ==
    \E i \in 1..Len(logger.pending), answer \in {"ok", "rejected", "error"},
       ok \in BOOLEAN :
        LET entry == logger.pending[i]
            out == Settled(storage, logger.pageName, entry, logger.now, answer, ok)
        IN
        /\ logger.build = "part_005"
        /\ answer = "ok" => ok
        /\ storage' = out.st
        /\ logger' = [logger EXCEPT
                        !.pending = RemoveAt(@, i), !.now = @ + 1,
                        !.db = IF answer = "ok" THEN Append(@, entry) ELSE @]
        /\ last' = [op |-> "logActivity", ep |-> <<>>,
                    arg |-> Obj(PutProp(entry.c, "timestamp", Str(Iso(logger.now)))),
                    res |-> Str(answer), threw |-> out.threw,
                    failed |-> IF ok THEN {} ELSE {"page"}]
        /\ UNCHANGED <<assigned, auth, posted, view>>

(***************************************************************************)
(* SpecLocalLog: a page logs with either logger over a local log that is   *)
(* empty, one short of the limit or at the limit.                          *)
(***************************************************************************)
\* a stored log of n entries written at the clock readings n, ..., 1
InitialLog(n) ==
    Stored(JSON_stringify(
        Arr([i \in 1..n |->
                TimedEntry("Item Added", "Ball", PageNameLogged, n - i + 1)])))

LogStorages ==
    {[k \in LogKeys |-> IF k = masterLogKey THEN Absent ELSE slot] :
        slot \in {Absent, InitialLog(MaxLogEntries - 1), InitialLog(MaxLogEntries)}}

InitLocalLog ==
    /\ storage \in LogStorages
    /\ \E build \in LoggerBuilds :
        logger = ActivityLogger(build, PageNameLogged, storage)
    /\ last = NoOp
    /\ assigned = {}
    /\ auth = NoPage
    /\ posted = <<>>
    /\ view = NoView

NextLocalLog == LocalLog \/ PostLog \/ Settle

SpecLocalLog == InitLocalLog /\ [][NextLocalLog]_vars

(***************************************************************************)
(* SpecLogger: the database-backed logger of a page.  The page log in      *)
(* local storage is empty or holds an entry of an earlier fallback; the    *)
(* master log is absent or holds an entry written by the earlier logger.   *)
(***************************************************************************)
\* the rows /api/activity-logs answers with: what the backend accepted,
\* newest first
Rows(db) == Arr([i \in 1..Len(db) |-> db[Len(db) - i + 1]])

FetchActivityLogs ==
    \E pageFilter \in {Null, Str(PageNameLogged)},
       answer \in {"ok", "rejected", "error"} :
        LET out == fetchActivityLogs(storage, pageFilter, answer, Rows(logger.db)) IN
        /\ logger.build = "part_005"
        /\ logger' = [logger EXCEPT
                        !.activityLog = IF out.threw THEN @ ELSE out.res]
        /\ last' = [op |-> "fetchActivityLogs", ep |-> <<"api", "activity-logs">>,
                    arg |-> pageFilter, res |-> out.res, threw |-> out.threw,
                    failed |-> IF answer = "ok" THEN {} ELSE {"api"}]
        /\ UNCHANGED <<storage, assigned, auth, posted, view>>

LoggerStorages ==
    {[k \in LogKeys |-> IF k = masterLogKey THEN master ELSE page] :
        page \in {Absent, InitialLog(1)}, master \in {Absent, InitialLog(1)}}

InitLogger ==
    /\ storage \in LoggerStorages
    /\ logger = ActivityLogger("part_005", PageNameLogged, storage)
    /\ last = NoOp
    /\ assigned = {}
    /\ auth = NoPage
    /\ posted = <<>>
    /\ view = NoView

NextLogger == PostLog \/ Settle \/ FetchActivityLogs

SpecLogger == InitLogger /\ [][NextLogger]_vars

(***************************************************************************)
(* The mobile detection script (src/unnamed/part_003).  A pathname is the  *)
(* sequence of its parts between slashes after the leading one: '/' is     *)
(* <<"">>, '/admin/' is <<"admin", "">>.  storage is the session storage   *)
(* of the tab.                                                             *)
(***************************************************************************)
SessionKeys == {"preferDesktop"}

\* page loads and navigations in one behaviour
MaxHops == 3

ViewPaths ==
    {<<"">>, <<"inventory.html">>, <<"admin", "index.html">>,
     <<"mobile", "inventory.html">>, <<"mobile">>}

\* currentPath.includes('/mobile/')
IsOnMobilePage(path) == \E i \in 1..(Len(path) - 1) : path[i] = "mobile"

\* basePath + 'mobile/' + (filename || 'index.html')
getMobileUrl(path) ==
    SubSeq(path, 1, Len(path) - 1)
    \o <<"mobile", IF path[Len(path)] = "" THEN "index.html" ELSE path[Len(path)]>>

\* path.replace('/mobile/', '/'): the first '/mobile/' is taken out
getDesktopUrl(path) ==
    IF ~IsOnMobilePage(path) THEN path
    ELSE LET i == CHOOSE i \in 1..(Len(path) - 1) :
                      path[i] = "mobile" /\ \A j \in 1..(i - 1) : path[j] # "mobile"
         IN  SubSeq(path, 1, i - 1) \o SubSeq(path, i + 1, Len(path))

\* a page starts to load; via tells what brought the browser there
Load(path, via, hops, desktopChosen) ==
    [pc |-> "script", path |-> path, via |-> via, hops |-> hops,
     isOnMobilePage |-> FALSE, preferDesktop |-> FALSE, mobile |-> FALSE,
     desktopChosen |-> desktopChosen]

\* variant: the stored preference is not looked at
checkAndRedirect_IgnorePreference(v, mobile) ==
    IF ~v.isOnMobilePage /\ mobile
    THEN Load(getMobileUrl(v.path), "auto", v.hops + 1, v.desktopChosen)
    ELSE [v EXCEPT !.pc = "ready", !.mobile = mobile]

\* checkAndRedirect, where mobile is what isMobileDevice() answers: a small
\* window or a mobile user agent
checkAndRedirect(v, mobile) ==
    IF ~v.isOnMobilePage /\ mobile /\ ~v.preferDesktop
    THEN Load(getMobileUrl(v.path), "auto", v.hops + 1, v.desktopChosen)
    ELSE [v EXCEPT !.pc = "ready", !.mobile = mobile]

\* the script runs: path and preference are read, and the check runs at
\* once or waits for DOMContentLoaded
ViewScript ==
    \E loading \in BOOLEAN, mobile \in BOOLEAN :
        LET seen == [view EXCEPT
                        !.isOnMobilePage = IsOnMobilePage(view.path),
                        !.preferDesktop =
                            (RawItem(storage, "preferDesktop") = Str("true"))]
        IN
        /\ view.pc = "script"
        /\ loading \/ view.hops < MaxHops \/ ~mobile
        /\ view' = IF loading THEN [seen EXCEPT !.pc = "loading"]
                   ELSE checkAndRedirect(seen, mobile)
        /\ UNCHANGED <<storage, last, assigned, auth, posted, logger>>

ViewDOMContentLoaded ==
    \E mobile \in BOOLEAN :
        /\ view.pc = "loading"
        /\ view.hops < MaxHops \/ ~mobile
        /\ view' = checkAndRedirect(view, mobile)
        /\ UNCHANGED <<storage, last, assigned, auth, posted, logger>>

switchToDesktop ==
    /\ view.pc \in {"loading", "ready"} /\ view.hops < MaxHops
    /\ storage' = [storage EXCEPT !["preferDesktop"] = Stored(<<Word("true")>>)]
    /\ view' = Load(getDesktopUrl(view.path), "switchToDesktop", view.hops + 1, TRUE)
    /\ UNCHANGED <<last, assigned, auth, posted, logger>>

switchToMobile ==
    /\ view.pc \in {"loading", "ready"} /\ view.hops < MaxHops
    /\ storage' = [storage EXCEPT !["preferDesktop"] = Absent]
    /\ view' = Load(getMobileUrl(view.path), "switchToMobile", view.hops + 1, FALSE)
    /\ UNCHANGED <<last, assigned, auth, posted, logger>>

clearViewPreference ==
    /\ view.pc \in {"loading", "ready"}
    /\ storage' = [storage EXCEPT !["preferDesktop"] = Absent]
    /\ view' = [view EXCEPT !.desktopChosen = FALSE]
    /\ UNCHANGED <<last, assigned, auth, posted, logger>>

\* the user follows a link to a page of the site
FollowLink ==
    \E path \in ViewPaths :
        /\ view.pc = "ready" /\ view.hops < MaxHops
        /\ view' = Load(path, "link", view.hops + 1, view.desktopChosen)
        /\ UNCHANGED <<storage, last, assigned, auth, posted, logger>>

\* a tab opens a page of the site; its session storage is empty
InitView ==
    /\ storage = [k \in SessionKeys |-> Absent]
    /\ view \in {Load(path, "open", 0, FALSE) : path \in ViewPaths}
    /\ last = NoOp
    /\ assigned = {}
    /\ auth = NoPage
    /\ posted = <<>>
    /\ logger = NoLogger

NextView ==
    \/ ViewScript
    \/ ViewDOMContentLoaded
    \/ switchToDesktop
    \/ switchToMobile
    \/ clearViewPreference
    \/ FollowLink

SpecView == InitView /\ [][NextView]_vars

(***************************************************************************)
(* The client of the remote API (src/local_site/js/api.js, and the copy in *)
(* src/unnamed/part_006 whose endpoints carry the '/api' prefix            *)
(* themselves).  An answer is what fetch() settles with: a rejection, or a *)
(* response with its ok flag and body text.  posted is the requests the    *)
(* mutations sent.                                                         *)
(***************************************************************************)
\* requests sent in one behaviour
MaxSent == 1

HttpAnswers ==
    {[kind |-> "network", ok |-> FALSE, body |-> <<>>],
     [kind |-> "status", ok |-> FALSE, body |-> <<Word("Not Found")>>],
     [kind |-> "status", ok |-> FALSE, body |-> Stringify(EmptyList)],
     [kind |-> "body", ok |-> TRUE, body |-> <<Word("<html>")>>],
     [kind |-> "ok", ok |-> TRUE, body |-> Stringify(Arr(<<Num(1)>>))],
     [kind |-> "ok", ok |-> TRUE, body |-> Stringify(Obj(<<Prop("ok", True)>>))]}

\* what went wrong with an answer, for the record of the call
FailureOf(answer) == IF answer.kind = "ok" THEN {} ELSE {answer.kind}

\* try { fetch; if (!response.ok) throw; return await response.json() }
\* catch { return onError }
apiFetch(answer, onError) ==
    IF answer.kind = "network" \/ ~answer.ok THEN Returns(onError, <<>>)
    ELSE LET r == JSON_parse(answer.body) IN
         IF r.ok THEN Returns(r.v, <<>>) ELSE Returns(onError, <<>>)

\* variant: a failed request is answered with null
apiPostData_ReturnsNull(answer) ==
    IF answer.kind = "network" \/ ~answer.ok THEN Returns(Null, <<>>)
    ELSE LET r == JSON_parse(answer.body) IN
         IF r.ok THEN Returns(r.v, <<>>) ELSE Returns(Null, <<>>)

\* postData: the catch logs and throws the error again
apiPostData(answer) ==
    IF answer.kind = "network" \/ ~answer.ok THEN Throws(<<>>)
    ELSE LET r == JSON_parse(answer.body) IN
         IF r.ok THEN Returns(r.v, <<>>) ELSE Throws(<<>>)

\* the read operations: endpoint and the value of the catch branch
ApiReads ==
    {[op |-> "fetchInventory", ep |-> <<"inventory">>, onError |-> EmptyList],
     [op |-> "fetchInventorySummary", ep |-> <<"inventory", "summary">>, onError |-> Null],
     [op |-> "fetchCoaches", ep |-> <<"coaches">>, onError |-> EmptyList],
     [op |-> "fetchBoardMembers", ep |-> <<"board-members">>, onError |-> EmptyList],
     [op |-> "fetchTeams", ep |-> <<"teams">>, onError |-> EmptyList],
     [op |-> "fetchCategories", ep |-> <<"inventory", "categories">>, onError |-> EmptyList],
     [op |-> "fetchStatuses", ep |-> <<"inventory", "statuses">>, onError |-> EmptyList],
     [op |-> "fetchEvents", ep |-> <<"events">>, onError |-> EmptyList],
     [op |-> "fetchConcessions", ep |-> <<"concessions">>, onError |-> EmptyList],
     [op |-> "fetchSchedule", ep |-> <<"schedule">>, onError |-> EmptyList],
     [op |-> "fetchLocations", ep |-> <<"locations">>, onError |-> EmptyList]}
    \cup {[op |-> "fetchEventUsage", ep |-> <<"events">> \o id \o <<"usage">>,
           onError |-> EmptyList] : id \in EventIds}

\* the mutations built on postData: endpoint and body
ApiMutations ==
    {[op |-> "saveEventUsage", ep |-> <<"events">> \o id \o <<"usage">>, data |-> d] :
        id \in EventIds, d \in UsagePayloads}
    \cup {[op |-> "syncEventInventory", ep |-> <<"events">> \o id \o <<"sync">>,
           data |-> Obj(<<>>)] : id \in EventIds}
    \cup {[op |-> "addConcessionItem", ep |-> <<"concessions">>, data |-> d] :
             d \in ConcessionPayloads}
    \cup {[op |-> "requestNewEvent", ep |-> <<"schedule", "request">>, data |-> d] :
             d \in RequestPayloads}

ApiRead ==
    \E r \in ApiReads, answer \in HttpAnswers :
        /\ last' = Did(r.op, r.ep, Undef, apiFetch(answer, r.onError), FailureOf(answer))
        /\ UNCHANGED <<storage, assigned, auth, posted, logger, view>>

ApiMutate ==
    \E m \in ApiMutations, answer \in HttpAnswers :
        /\ Len(posted) < MaxSent
        /\ posted' = Append(posted, [method |-> "POST", ep |-> m.ep,
                                     body |-> JSON_stringify(m.data)])
        /\ last' = Did(m.op, m.ep, m.data, apiPostData(answer), FailureOf(answer))
        /\ UNCHANGED <<storage, assigned, auth, logger, view>>

InitApi ==
    /\ storage = Fresh
    /\ last = NoOp
    /\ assigned = {}
    /\ auth = NoPage
    /\ posted = <<>>
    /\ logger = NoLogger
    /\ view = NoView

NextApi == ApiRead \/ ApiMutate

SpecApi == InitApi /\ [][NextApi]_vars

(***************************************************************************)
(* Properties.                                                             *)
(***************************************************************************)
\* the stored text of the slot parses to a truthy JSON value
HoldsTruthy(slot) ==
    /\ slot.present
    /\ JSON_parse(slot.text).ok
    /\ Truthy(JSON_parse(slot.text).v)

DefaultSlot(k) == Stored(JSON_stringify(SeedDefault(k)))

\* the stored concessions, as read back
Concessions(st) == LS_get(st, STORAGE_KEYS.concessions, EmptyList)
IdOf(record) == GetProp(record, "id")

Posted == last.op = "addConcessionItem" /\ ~last.threw /\ last.failed = {}

\* C1, as stated: the seed step leaves every key that holds a value as it
\* was, whatever the value.  (SpecStored)
C1_SeedKeepsEveryValue ==
    [][last'.op = "seedIfEmpty" =>
        \A k \in Keys : storage[k].present => storage'[k] = storage[k]]_vars

\* C1, amended: the seed step leaves a key unchanged when its text parses to
\* a truthy JSON value (any list or object, empty ones included); every
\* other key (absent, empty or unparseable text, or null, false, 0, "")
\* receives its default, unless that write fails and the key stays as it was.
\* (SpecStored)
C1_SeedKeepsTruthyValues ==
    [][last'.op = "seedIfEmpty" =>
        \A k \in Keys :
            storage'[k] = IF HoldsTruthy(storage[k]) \/ k \in last'.failed
                          THEN storage[k] ELSE DefaultSlot(k)]_vars

\* the seed step has run over an empty category list and an absent inventory:
\* the empty list is still there, the inventory got its default
C1_Witness ==
    /\ last.op = "seedIfEmpty"
    /\ last.failed = {}
    /\ storage[STORAGE_KEYS.categories] = Stored(JSON_stringify(EmptyList))
    /\ storage = [Seeded EXCEPT ![STORAGE_KEYS.categories] =
                                    Stored(JSON_stringify(EmptyList))]

\* C2, as stated: a post gives the new record id 1 on an empty list and
\* max + 1 otherwise, and the ids of the stored concessions are pairwise
\* distinct.  (SpecConcessions)
C2_ConcessionIdsDistinct ==
    LET list == Concessions(storage) IN
    /\ \A i, j \in 1..Len(list.c) : i # j => IdOf(list.c[i]) # IdOf(list.c[j])
    /\ Posted =>
        /\ Len(list.c) = 1 => IdOf(last.res) = Num(1)
        /\ \A i \in 1..(Len(list.c) - 1) : IdOf(list.c[i]).n < IdOf(last.res).n

Saved == last.op = "saveEventUsage" /\ ~last.threw

\* C4, as stated: after saveEventUsage(e, p), fetchEventUsage(e) returns p.
\* (SpecUsage)
C4_ReadYourWrite ==
    Saved => fetchData(storage, last.ep).res = last.arg

\* C4, amended: when the write is not refused, fetchEventUsage(e) returns p
\* if p is truthy and [] if p is falsy (null, false, 0, ""), whatever was
\* saved for e before.  (SpecUsage)
C4_ReadYourTruthyWrite ==
    (Saved /\ last.failed = {}) =>
        fetchData(storage, last.ep).res =
            IF Truthy(last.arg) THEN last.arg ELSE EmptyList

\* usage for event 7 was saved over an earlier entry while event 8 keeps its
\* own: the mapping holds both, and the new payload is the one of 7
C4_Witness ==
    LET usage == LS_get(storage, STORAGE_KEYS.eventUsage, Obj(<<>>)) IN
    /\ Saved /\ last.failed = {}
    /\ last.ep = UsageEndpoint(<<"7">>)
    /\ last.arg = Arr(<<Num(4)>>)
    /\ GetProp(usage, "7") = Arr(<<Num(4)>>)
    /\ GetProp(usage, "8") = Obj(<<Prop("hotdogs", Num(2))>>)

\* deep equality of two values: objects are equal when they have the same
\* property names with deep-equal values, in any order
RECURSIVE DeepEqual(_, _)
DeepEqual(a, b) ==
    /\ a.t = b.t
    /\ CASE a.t = "arr" ->
                /\ Len(a.c) = Len(b.c)
                /\ \A i \in 1..Len(a.c) : DeepEqual(a.c[i], b.c[i])
         [] a.t = "obj" ->
                /\ {a.c[i].s : i \in 1..Len(a.c)} = {b.c[i].s : i \in 1..Len(b.c)}
                /\ \A i \in 1..Len(a.c) :
                        DeepEqual(a.c[i].c[1], GetProp(b, a.c[i].s))
         [] OTHER -> a.n = b.n /\ a.s = b.s

WroteJson == last.op = "LS.set" /\ last.arg \in JsonValues

\* C5, as stated: LS.get after LS.set(key, v) returns a value deep-equal to
\* v, whatever the fallback.  (SpecLS)
C5_RoundTrip ==
    WroteJson =>
        \A fallback \in Fallbacks :
            DeepEqual(LS_get(storage, last.ep[1], fallback), last.arg)

\* C5, amended: the same, when the storage write was not refused.  (SpecLS)
C5_RoundTripWhenWritten ==
    (WroteJson /\ last.failed = {}) =>
        \A fallback \in Fallbacks :
            DeepEqual(LS_get(storage, last.ep[1], fallback), last.arg)

\* a nested object was written over the inventory key and the write went
\* through
C5_Witness ==
    /\ WroteJson /\ last.failed = {}
    /\ last.ep = <<STORAGE_KEYS.inventory>>
    /\ last.arg.t = "obj" /\ Len(last.arg.c) = 2
    /\ storage[STORAGE_KEYS.eventUsage] = Stored(JSON_stringify(Num(5)))

\* the stored value is JSON whose shape the operation cannot use
HoldsJson(slot) == slot.present /\ JSON_parse(slot.text).ok
JsonOf(slot) == JSON_parse(slot.text).v

Malformed(op, st) ==
    LET inv  == st[STORAGE_KEYS.inventory]
        cats == st[STORAGE_KEYS.categories]
        conc == st[STORAGE_KEYS.concessions]
        use  == st[STORAGE_KEYS.eventUsage]
        reqs == st[STORAGE_KEYS.eventRequests]
    IN  CASE op = "fetchInventorySummary" ->
                HoldsJson(inv) /\ ~Iterable(JsonOf(inv))
          [] op = "fetchCategories" ->
                /\ HoldsJson(inv) /\ ~Iterable(JsonOf(inv))
                /\ ~(/\ HoldsJson(cats) /\ Truthy(JsonOf(cats))
                     /\ Truthy(GetProp(JsonOf(cats), "length")))
          [] op = "addConcessionItem" ->
                HoldsJson(conc) /\ ~Iterable(JsonOf(conc))
          [] op = "saveEventUsage" -> HoldsJson(use) /\ JsonOf(use) = Null
          [] op = "requestNewEvent" -> HoldsJson(reqs) /\ JsonOf(reqs).t # "arr"
          [] OTHER -> FALSE

\* C6, as stated: no operation of the store raises, whatever the keys hold.
\* (SpecStored)
C6_NoOperationRaises == ~last.threw

\* C6, amended: an operation raises exactly when it is fetchInventorySummary
\* (or fetchCategories with no usable category list) over a stored inventory
\* that is not an array of non-null elements, a concession post over stored
\* concessions that are not such an array, a usage save over a stored null,
\* or an event request over stored requests that are not an array; every
\* other call, and every call over absent or unparseable keys, completes
\* with a value.  (SpecStored)
C6_RaisesOnlyOnMalformed == last.threw <=> Malformed(last.op, storage)

\* the summary was read over an inventory key holding unparseable text and
\* completed with four zero counters
C6_Witness ==
    /\ last.op = "fetchInventorySummary" /\ ~last.threw
    /\ storage[STORAGE_KEYS.inventory] = Stored(<<Word("undefined")>>)
    /\ GetProp(last.res, "total_items") = Num(0)

StoredCategories == JsonOf(storage[STORAGE_KEYS.categories])
StoredInventory  == JsonOf(storage[STORAGE_KEYS.inventory])

\* the category of an item, when it is a non-empty value
CategoryOf(item) == GetProp(item, "category")
HasCategory(item) == CategoryOf(item).t = "str" /\ CategoryOf(item).s # ""

\* the position of the first item carrying the category
FirstWith(items, cat) ==
    CHOOSE i \in 1..Len(items) :
        /\ CategoryOf(items[i]) = cat
        /\ \A j \in 1..(i - 1) : CategoryOf(items[j]) # cat

\* r lists the non-empty categories of the items, each once, by first
\* occurrence
ListsCategories(r, items) ==
    /\ \A j \in 1..Len(r) :
            \E i \in 1..Len(items) : HasCategory(items[i]) /\ r[j] = CategoryOf(items[i])
    /\ \A i \in 1..Len(items) :
            HasCategory(items[i]) => \E j \in 1..Len(r) : r[j] = CategoryOf(items[i])
    /\ \A j1, j2 \in 1..Len(r) :
            j1 < j2 => FirstWith(items, r[j1]) < FirstWith(items, r[j2])

\* C7: fetchCategories returns the stored category list unchanged when it is
\* non-empty, whatever the inventory; when it is empty, the distinct
\* non-empty categories of the inventory items by first occurrence.
\* (SpecInventory)
C7_StoredListOrDerived ==
    last.op = "fetchCategories" =>
        /\ ~last.threw
        /\ IF Len(StoredCategories.c) > 0
           THEN last.res = StoredCategories
           ELSE last.res.t = "arr" /\ ListsCategories(last.res.c, StoredInventory.c)

\* the stored list is empty and the inventory repeats a category after
\* another one and has items without one: two categories come back
C7_Witness ==
    /\ last.op = "fetchCategories"
    /\ StoredCategories = EmptyList
    /\ last.res = Strings(<<"bat", "glove">>)
    /\ Len(StoredInventory.c) = 3
    /\ CategoryOf(StoredInventory.c[2]) = Null
    /\ CategoryOf(StoredInventory.c[3]) = Str("glove")

\* what the claim lets an item contribute: its quantity when that is a
\* number or a numeric string, zero when it is missing or anything else
Contribution(item) ==
    LET q == GetProp(item, "quantity") IN
    IF q.t = "num" THEN q.n
    ELSE IF q.t = "str" /\ StrToNumber(q.s).t = "num" THEN StrToNumber(q.s).n
    ELSE 0

RECURSIVE SumContribution(_, _)
SumContribution(items, statuses) ==
    IF items = <<>> THEN 0
    ELSE (IF GetProp(Head(items), "status").s \in statuses
          THEN Contribution(Head(items)) ELSE 0)
         + SumContribution(Tail(items), statuses)

AnyStatus == {"in-stock", "checked-out", "needs-repair"}

\* C8, as stated: the four counters are the sums of quantity over all items
\* and over the items of each status, an item with a missing or non-numeric
\* quantity contributing zero.  (SpecInventory)
C8_SummarySums ==
    last.op = "fetchInventorySummary" =>
        /\ ~last.threw
        /\ last.res = Obj(<<
            Prop("total_items", Num(SumContribution(StoredInventory.c, AnyStatus))),
            Prop("available", Num(SumContribution(StoredInventory.c, {"in-stock"}))),
            Prop("checked_out", Num(SumContribution(StoredInventory.c, {"checked-out"}))),
            Prop("needs_repair", Num(SumContribution(StoredInventory.c, {"needs-repair"})))
           >>)

AllPresent(st) == \A k \in Keys : st[k].present

\* C9, as stated: once the seed step has run, each of the ten keys holds a
\* value, for ever.  (Spec)
C9_AllKeysPresent == Loaded => AllPresent(storage)

\* C9, amended: no operation removes a key, and the seed step leaves a value
\* under every key except those whose write was refused.  (Spec)
C9_KeysStayPresent ==
    [][/\ \A k \in Keys : storage[k].present => storage'[k].present
       /\ last'.op = "seedIfEmpty" =>
            \A k \in Keys \ last'.failed : storage'[k].present]_vars

\* the seed step ran again after two concession posts and an event request,
\* and all ten keys hold a value
C9_Witness ==
    /\ last.op = "seedIfEmpty" /\ last.failed = {}
    /\ Cardinality(assigned) = 2
    /\ Len(Concessions(storage).c) = 2
    /\ Len(LS_get(storage, STORAGE_KEYS.eventRequests, EmptyList).c) = 1
    /\ AllPresent(storage)

\* C10: LS.get never throws, never changes storage, and returns the parsed
\* value when the key holds parseable JSON text and the caller's fallback
\* when the key is absent or its text does not parse.  (SpecLS)
C10_GetParsedOrFallback ==
    [][last'.op = "LS.get" =>
        /\ ~last'.threw
        /\ storage' = storage
        /\ last'.res = IF HoldsJson(storage[last'.ep[1]])
                       THEN JsonOf(storage[last'.ep[1]])
                       ELSE last'.arg]_vars

\* the key holds the text written by LS.set(key, undefined), which does not
\* parse, and the read came back with the fallback list
C10_Witness ==
    /\ last.op = "LS.get" /\ ~last.threw
    /\ last.ep = <<STORAGE_KEYS.eventUsage>>
    /\ storage[STORAGE_KEYS.eventUsage] = Stored(<<Word("undefined")>>)
    /\ last.arg = EmptyList /\ last.res = EmptyList

\* C11: when the storage write fails, LS.set returns normally and the value
\* under that key and under every other key is unchanged.  (SpecLS)
C11_FailedWriteChangesNothing ==
    [][(last'.op = "LS.set" /\ last'.failed # {}) =>
            ~last'.threw /\ storage' = storage]_vars

\* the write of a string over the inventory key was refused and the key
\* still holds the number stored before
C11_Witness ==
    /\ last.op = "LS.set" /\ last.failed = {STORAGE_KEYS.inventory}
    /\ ~last.threw
    /\ last.arg = Str("abc")
    /\ storage[STORAGE_KEYS.inventory] = Stored(JSON_stringify(Num(5)))

LastOf(els) == els[Len(els)]

\* C12, as stated: after a concession post returned record r, the stored
\* concessions collection has r as its last element.  (SpecConcessions)
C12_ReturnedRecordStored ==
    (last.op = "addConcessionItem" /\ ~last.threw) =>
        /\ Concessions(storage).c # <<>>
        /\ DeepEqual(LastOf(Concessions(storage).c), last.res)

\* C12, amended: the same, when the storage write was not refused.
\* (SpecConcessions)
C12_ReturnedRecordStoredWhenWritten ==
    Posted =>
        /\ Concessions(storage).c # <<>>
        /\ DeepEqual(LastOf(Concessions(storage).c), last.res)

\* the second record was posted: it came back with id 2 and is stored after
\* the first
C12_Witness ==
    /\ Posted
    /\ Len(Concessions(storage).c) = 2
    /\ IdOf(last.res) = Num(2)
    /\ GetProp(last.res, "name") = Str("Hot Dog")
    /\ IdOf(Concessions(storage).c[1]) = Num(1)

Requests(st) == LS_get(st, STORAGE_KEYS.eventRequests, EmptyList)

\* C13, as stated: after any sequence of requestNewEvent calls with any
\* payloads, the k-th stored request has id k and carries the created_at
\* timestamp of its write.  (SpecRequests)
C13_RequestIdsByPosition ==
    \A k \in 1..Len(Requests(storage).c) :
        /\ IdOf(Requests(storage).c[k]) = Num(k)
        /\ GetProp(Requests(storage).c[k], "created_at") \in {Str(t) : t \in Timestamps}

\* the endpoint has the shape '/events/<id>/usage'
IsUsageTemplate(ep) == Len(ep) >= 3 /\ ep[1] = "events" /\ ep[Len(ep)] = "usage"

Acked == ~last'.threw /\ last'.res = Ack("ok") /\ storage' = storage

\* C14, as stated: postData on an endpoint that is none of '/concessions',
\* '/events/<id>/usage' and '/schedule/request' returns {status: 'ok'} and
\* leaves every collection unchanged.  (SpecDispatch)
C14_UnknownEndpointAcked ==
    [][(/\ last'.op = "postData"
        /\ last'.ep \notin {<<"concessions">>, <<"schedule", "request">>}
        /\ ~IsUsageTemplate(last'.ep)) => Acked]_vars

\* C14, amended: the same for an endpoint that is neither '/concessions' nor
\* '/schedule/request' and does not both start with '/events/' and end with
\* '/usage'.  (SpecDispatch)
C14_UnmatchedEndpointAcked ==
    [][(/\ last'.op = "postData"
        /\ last'.ep \notin {<<"concessions">>, <<"schedule", "request">>}
        /\ ~IsUsageEndpoint(last'.ep)) => Acked]_vars

\* '/events/7/sync' was posted over an unparseable concessions key and was
\* acknowledged
C14_Witness ==
    /\ last.op = "postData" /\ last.ep = <<"events", "7", "sync">>
    /\ last.res = Ack("ok")
    /\ storage[STORAGE_KEYS.concessions] = Stored(<<Word("undefined")>>)

\* the stored concessions hold the record at some position
Holds(list, record) == \E i \in 1..Len(list) : DeepEqual(list[i], record)

\* C15, as stated for two concession posts issued back-to-back, both
\* persisted: the second runs on the store the first committed (postData has
\* no await, a call runs to completion when it is issued), they receive two
\* different ids and both records are stored afterwards.  (SpecConcessions)
C15_BackToBackPostsDistinct ==
    [][(Posted /\ Posted') =>
        /\ IdOf(last.res) # IdOf(last'.res)
        /\ Holds(Concessions(storage').c, last.res)
        /\ Holds(Concessions(storage').c, last'.res)]_vars

FetchOps ==
    {"fetchInventory", "fetchInventorySummary", "fetchCoaches", "fetchTeams",
     "fetchCategories", "fetchStatuses", "fetchData"}

\* the outcome of the fetch operation op (on endpoint ep) over storage st
FetchOutcome(op, ep, st) ==
    CASE op = "fetchInventory" -> fetchInventory(st)
      [] op = "fetchInventorySummary" -> fetchInventorySummary(st)
      [] op = "fetchCoaches" -> fetchCoaches(st)
      [] op = "fetchTeams" -> fetchTeams(st)
      [] op = "fetchCategories" -> fetchCategories(st)
      [] op = "fetchStatuses" -> fetchStatuses(st)
      [] op = "fetchData" -> fetchData(st, ep)

\* the three ways a collection can be without content: the key absent, a
\* text that does not parse, the empty container
EmptyContainer(k) == IF k = STORAGE_KEYS.eventUsage THEN Obj(<<>>) ELSE EmptyList
EmptyLike(k) ==
    {Absent} \cup {Stored(t) : t \in Unparseable}
    \cup {Stored(JSON_stringify(EmptyContainer(k)))}

\* SpecEmptyLike: one fetch operation on seeded storage where up to MaxDirty
\* keys are without content in one of the three ways
EmptyLikeStates ==
    {[k \in Keys |-> IF k \in DOMAIN d THEN d[k] ELSE Seeded[k]] :
        d \in {e \in UNION {[D -> UNION {EmptyLike(k) : k \in Keys}] :
                              D \in {S \in SUBSET Keys : Cardinality(S) <= MaxDirty}} :
                  \A k \in DOMAIN e : e[k] \in EmptyLike(k)}}

InitEmptyLike ==
    /\ storage \in EmptyLikeStates \cup {Fresh}
    /\ last = NoOp
    /\ assigned = {}
    /\ auth = NoPage
    /\ posted = <<>>
    /\ logger = NoLogger
    /\ view = NoView

NextEmptyLike ==
    /\ ~Loaded
    /\ \/ FetchInventory
       \/ FetchInventorySummary
       \/ FetchCoaches
       \/ FetchTeams
       \/ FetchCategories
       \/ FetchStatuses
       \/ FetchData

SpecEmptyLike == InitEmptyLike /\ [][NextEmptyLike]_vars

\* C16: for every fetch operation, the result with a collection key absent,
\* with the key holding unparseable data and with the key holding the empty
\* container are the same.  (SpecEmptyLike)
C16_AbsentUnparseableEmptyAlike ==
    last.op \in FetchOps =>
        \A k \in Keys :
            storage[k] \in EmptyLike(k) =>
                \A slot \in EmptyLike(k) :
                    LET out == FetchOutcome(last.op, last.ep,
                                            [storage EXCEPT ![k] = slot])
                    IN  out.res = last.res /\ out.threw = last.threw

\* the usage of event 7 was read over an event-usage key holding unparseable
\* text, and came back as the empty list
C16_Witness ==
    /\ last.op = "fetchData" /\ last.ep = UsageEndpoint(<<"7">>)
    /\ storage[STORAGE_KEYS.eventUsage] = Stored(<<Word("undefined")>>)
    /\ last.res = EmptyList /\ ~last.threw

\* the attempt to verify the token did not succeed: the backend answered
\* with an error status, or the request raised
VerificationFailed == auth.answer \in {"rejected", "error"}

\* C17, as stated: the auth UI and the page permissions are initialised only
\* after requireAuth returned true, and requireAuth returns false and sends
\* the browser to /login.html whenever the token or the user info is
\* missing or the token verification fails.  (SpecAuth)
C17_PagesRequireAuth ==
    /\ (auth.ui \/ auth.perms) => auth.ret = "true"
    /\ (auth.pc = "done" /\ (auth.missing \/ VerificationFailed)) =>
            auth.ret = "false" /\ auth.href = LoginPage

\* C18, as stated: requireAuth returns true only if the backend's /auth/me
\* answered OK for the stored token during that call, whatever browser
\* storage holds.  (SpecAuth)
C18_TrueOnlyAfterBackendOk == auth.ret = "true" => auth.answer = "ok"

RoleOf(userInfo) ==
    IF userInfo.t = "obj" THEN GetProp(userInfo, "role") ELSE Undef

PageNames == {"fundraising", "index", "inventory"}

\* C19: hasPagePermission gives a board member read without write on
\* 'fundraising' and read and write elsewhere, an admin read and write
\* everywhere, anyone else nothing; write is never granted without read; and
\* on the fundraising page, once requireAuth has let the page through, a
\* user without write permission has the submit of the forms blocked.
\* (SpecAuth)
C19_BoardReadOnlyOnFundraising ==
    /\ \A p \in PageNames :
        LET perm == hasPagePermission(auth, p) IN
        /\ perm.write => perm.read
        /\ perm = CASE RoleOf(auth.userInfo) = Str("admin") ->
                        [read |-> TRUE, write |-> TRUE]
                    [] RoleOf(auth.userInfo) = Str("board_member") ->
                        [read |-> TRUE, write |-> p # "fundraising"]
                    [] OTHER -> [read |-> FALSE, write |-> FALSE]
    /\ (/\ auth.pc = "done" /\ auth.ret = "true" /\ auth.href # LoginPage
        /\ PageNameOf(auth.path) = "fundraising"
        /\ ~hasPagePermission(auth, "fundraising").write) => auth.blocked

\* a board member's token was verified by the backend on the fundraising
\* page and the forms were blocked
C19_Witness ==
    /\ auth.pc = "done" /\ auth.ret = "true" /\ auth.answer = "ok"
    /\ auth.path = "/fundraising.html"
    /\ RoleOf(auth.userInfo) = Str("board_member")
    /\ auth.perms /\ auth.blocked

\* the text a value is shown with: N/A for a missing field
Shown(v) == IF v = Undef THEN "N/A" ELSE TextOf(v)

Differs(field) ==
    GetProp(last.arg.original, field) # GetProp(last.arg.updated, field)

FieldsOf(fields) == {fields[i] : i \in 1..Len(fields)}

\* C20, as stated: logChanges logs an '<itemName> Updated' activity exactly
\* when one of the compared fields has a different value in original and
\* updated, and the details list every such field with its old and its new
\* value.  (SpecChanges)
C20_ChangesLoggedWithValues ==
    last.op = "logChanges" =>
        /\ last.res.logged <=> \E f \in FieldsOf(last.arg.fields) : Differs(f)
        /\ last.res.logged =>
            /\ last.res.entry.action = <<"Bat", " Updated">>
            /\ \A f \in FieldsOf(last.arg.fields) :
                Differs(f) =>
                    \E i \in 1..Len(last.res.entry.details) :
                        LET c == last.res.entry.details[i] IN
                        /\ c.label = FieldLabel(f)
                        /\ c.old = Shown(GetProp(last.arg.original, f))
                        /\ c.new = Shown(GetProp(last.arg.updated, f))

\* the key a mutation writes; syncEventInventory writes none
OwnKeys(op) ==
    CASE op = "addConcessionItem" -> {STORAGE_KEYS.concessions}
      [] op = "saveEventUsage" -> {STORAGE_KEYS.eventUsage}
      [] op = "requestNewEvent" -> {STORAGE_KEYS.eventRequests}
      [] OTHER -> {}

Mutations ==
    {"addConcessionItem", "saveEventUsage", "requestNewEvent", "syncEventInventory"}

\* C21: a mutation changes only its own collection: addConcessionItem only
\* the concessions key, saveEventUsage only the event-usage key,
\* requestNewEvent only the event-requests key and syncEventInventory no
\* key; every other key holds the same text before and after.  (Spec)
C21_MutationChangesOwnKeyOnly ==
    [][last'.op \in Mutations =>
          \A k \in Keys \ OwnKeys(last'.op) : storage'[k] = storage[k]]_vars

\* a request was stored while concessions and event usage held records
C21_Witness ==
    /\ last.op = "requestNewEvent"
    /\ last.failed = {}
    /\ Len(Requests(storage).c) >= 1
    /\ Len(Concessions(storage).c) >= 1
    /\ Truthy(GetProp(LS_get(storage, STORAGE_KEYS.eventUsage, Obj(<<>>)), "7"))

Usage(st) == LS_get(st, STORAGE_KEYS.eventUsage, Obj(<<>>))

\* the event id a usage endpoint was built from
EventIdOf(ep) == SubSeq(ep, 2, Len(ep) - 1)

\* event ids without a '/': one path segment
PlainIds == {e \in EventIds : Len(e) = 1}

\* the other event ids in `ids` keep their stored payload and their read
KeepsOthers(ids) ==
    \A e \in ids \ {EventIdOf(last'.ep)} :
        /\ Len(e) = 1 => GetProp(Usage(storage'), e[1]) = GetProp(Usage(storage), e[1])
        /\ fetchEventUsage(storage', e).res = fetchEventUsage(storage, e).res

\* C22, as stated: saveEventUsage(e, p) leaves the payload stored for every
\* event id other than e as it was, and fetchEventUsage of any other id
\* returns what it returned before.  (SpecUsage)
C22_OneEntryOverwritten ==
    [][last'.op = "saveEventUsage" => KeepsOthers(EventIds)]_vars

\* C22, amended: for event ids without a '/', saveEventUsage(e, p) leaves
\* the payload stored for every other such id as it was, and
\* fetchEventUsage of any other such id returns what it returned before.
\* (SpecUsage)
C22_OneEntryOverwrittenPlainIds ==
    [][(last'.op = "saveEventUsage" /\ EventIdOf(last'.ep) \in PlainIds)
          => KeepsOthers(PlainIds)]_vars

\* null was saved for event 8 while event 7 keeps the payload saved before
C22_Witness ==
    /\ Saved /\ last.failed = {}
    /\ last.ep = UsageEndpoint(<<"8">>)
    /\ last.arg = Null
    /\ HasOwn(Usage(storage), "8")
    /\ GetProp(Usage(storage), "7") = Obj(<<Prop("hotdogs", Num(2))>>)

\* the list a list mutation appends to
ListOf(op, st) ==
    IF op = "addConcessionItem" THEN Concessions(st) ELSE Requests(st)

ListMutations == {"addConcessionItem", "requestNewEvent"}

\* the list is one longer and starts with the records it held, in order
GrewByOne(before, after) ==
    /\ before.t = "arr" /\ after.t = "arr"
    /\ Len(after.c) = Len(before.c) + 1
    /\ SubSeq(after.c, 1, Len(before.c)) = before.c

\* C23, as stated: each addConcessionItem or requestNewEvent call makes its
\* list longer by exactly one, the new record last and every record stored
\* before unchanged and in the same order.  (Spec)
C23_ListsAppendOnly ==
    [][last'.op \in ListMutations =>
          GrewByOne(ListOf(last'.op, storage), ListOf(last'.op, storage'))]_vars

\* C23, amended: the same for each call whose storage write is not refused;
\* a call whose write is refused leaves its list as it was.  (Spec)
C23_ListsAppendOnlyWhenWritten ==
    [][last'.op \in ListMutations =>
          IF last'.failed = {} /\ ~last'.threw
          THEN GrewByOne(ListOf(last'.op, storage), ListOf(last'.op, storage'))
          ELSE ListOf(last'.op, storage') = ListOf(last'.op, storage)]_vars

\* a second request was stored behind the first one
C23_Witness ==
    /\ last.op = "requestNewEvent" /\ last.failed = {}
    /\ Len(Requests(storage).c) = 2
    /\ GetProp(Requests(storage).c[1], "id") = Num(1)
    /\ GetProp(Requests(storage).c[2], "id") = Num(2)

\* C24: no fetch operation changes the text stored under any key, and the
\* same fetch called again at once returns (or raises) what the first call
\* returned (or raised).  (SpecStored)
C24_ReadsArePure ==
    [][last'.op \in FetchOps =>
          /\ storage' = storage
          /\ LET again == FetchOutcome(last'.op, last'.ep, storage') IN
             again.res = last'.res /\ again.threw = last'.threw
                /\ again.st = storage']_vars

\* the categories were read, and derived, over an absent categories key,
\* which is still absent
C24_Witness ==
    /\ last.op = "fetchCategories" /\ ~last.threw
    /\ last.res = EmptyList
    /\ storage[STORAGE_KEYS.categories] = Absent
    /\ storage[STORAGE_KEYS.inventory] # Absent

\* logout() runs in this step: the logout button, or verifyToken on a
\* rejected token or, outside development mode, on a failed request
LogoutCalled ==
    \/ auth.pc = "done" /\ auth'.href = LoginPage /\ auth.href # LoginPage
    \/ auth.pc = "fetching" /\ auth'.answer = "rejected"
    \/ auth.pc = "fetching" /\ auth'.answer = "error" /\ ~auth.devMode

\* C25: in auth.js, after logout() (called directly or by verifyToken)
\* auth_token, user_info and dev_mode are absent from storage, the token
\* and user info in memory are null, isAuthenticated() is false and the
\* browser is at /login.html; a network error in development mode changes
\* neither storage nor the session in memory and sends the browser nowhere.
\* (SpecAuth)
C25_LogoutClearsSession ==
    [][auth.build = "auth.js" =>
          /\ LogoutCalled =>
                /\ \A k \in AuthKeys : storage'[k] = Absent
                /\ auth'.token = Null /\ auth'.userInfo = Null
                /\ ~isAuthenticated(auth')
                /\ auth'.href = LoginPage
          /\ (auth.pc = "fetching" /\ auth'.answer = "error" /\ auth.devMode) =>
                /\ storage' = storage
                /\ auth'.token = auth.token /\ auth'.userInfo = auth.userInfo
                /\ auth'.href = auth.href /\ auth'.ret = "true"]_vars

\* the backend rejected the token of a page in development mode: the flag
\* is gone with the session
C25_Witness ==
    /\ auth.pc = "done" /\ auth.build = "auth.js"
    /\ auth.answer = "rejected" /\ auth.devMode
    /\ \A k \in AuthKeys : storage[k] = Absent
    /\ auth.token = Null /\ auth.href = LoginPage

\* the stored log of the page
PageLog(st) == StoredLog(st, StorageKey(PageNameLogged)).v.c

NewestFirst(log) ==
    \A i \in 1..(Len(log) - 1) :
        TimeOf(GetProp(log[i], "timestamp").s) >= TimeOf(GetProp(log[i + 1], "timestamp").s)

\* `after` is `before` with k entries put in front and cut to the limit
PutInFront(before, after) ==
    \E k \in 1..Len(after) :
        after = Take(SubSeq(after, 1, k) \o before, MaxLogEntries)

LogEnded == logger.build = "part_005" /\ last'.op = "logActivity"

\* C27, as stated: the database-backed logActivity never rejects; its entry
\* is put in the local log of the page, once, exactly when the post failed
\* (a non-OK response or a network error), and nothing is written locally
\* when the backend accepted it.  (SpecLogger)
C27_LoggedOnceNeverRejects ==
    [][LogEnded =>
          /\ ~last'.threw
          /\ IF last'.res = Str("ok") THEN storage' = storage
             ELSE /\ PageLog(storage') = <<last'.arg>> \o PageLog(storage)
                  /\ storage'[masterLogKey] = storage[masterLogKey]]_vars

\* C28, as stated: when fetchActivityLogs falls back to local storage
\* because its request failed, the log it returns holds every entry the
\* fallback of logActivity stored for the page (the entries stamped from
\* ClockStart on), with the page as filter and without a filter.
\* (SpecLogger)
C28_FallbackEntriesReadable ==
    (last.op = "fetchActivityLogs" /\ last.failed # {} /\ ~last.threw) =>
        \A i \in 1..Len(PageLog(storage)) :
            TimeOf(GetProp(PageLog(storage)[i], "timestamp").s) >= ClockStart =>
                \E j \in 1..Len(last.res.c) : last.res.c[j] = PageLog(storage)[i]

\* the step is an automatic redirect
AutoRedirected == view'.hops # view.hops /\ view'.via = "auto"

ApiReadOps == {r.op : r \in ApiReads}
ApiMutationOps == {m.op : m \in ApiMutations}

\* C30: a read of the remote API never throws, and when the request fails or
\* the response is not OK it returns the empty list (fetchInventorySummary:
\* null); a mutation built on postData throws in these cases.  (SpecApi)
C30_ReadsSwallowMutationsReject ==
    /\ last.op \in ApiReadOps =>
            /\ ~last.threw
            /\ last.failed # {} =>
                   last.res = IF last.op = "fetchInventorySummary" THEN Null
                              ELSE EmptyList
    /\ last.op \in ApiMutationOps /\ last.failed # {} => last.threw

\* saveEventUsage met a response that was not OK and threw
C30_Witness ==
    /\ last.op = "saveEventUsage" /\ last.failed = {"status"} /\ last.threw
    /\ Len(posted) = 1

=============================================================================
